---- MODULE Spec2Model ----
(***************************************************************************)
(* Container lifecycle engine of runsc (runsc/container/container.go) and  *)
(* the sentry-side lifecycle controller (pkg/sentry/control/lifecycle.go). *)
(*                                                                         *)
(* Several CLI processes operate on the containers of one sandbox.  Every  *)
(* process holds its own in-memory copy of a Container (mem), the state    *)
(* file of every container id is shared (disk), guarded by a per-container *)
(* advisory lock (lockHolder).  The sentry, gofers, cgroups and self-      *)
(* backed filestores are the host resources the engine creates and tears   *)
(* down.                                                                   *)
(***************************************************************************)
EXTENDS Integers, FiniteSets, Sequences, TLC

\* CLI processes that can run concurrently against the same root dir.
Procs == {"p1", "p2"}

\* Container ids of the sandbox: "r" is the root container, "s" a sub-container.
Ids == {"r", "s"}

\* Sandbox id: the id of the root container.
SandboxID == "r"

\* Host pids available for gofer processes.
MaxGofers == 2

\* Number of injected failures (RPC, spawn, save, hook, ...) over one run.
MaxFaults == 1

\* Number of times initGoferConfs may append to one GoferMountConfs.
MaxConfs == 2

Pids == 1..MaxGofers

\* Spec.Process.OOMScoreAdj is nil: a value no oom_score_adj can take.
NoScore == 1001

\* oom_score_adj values the OCI specs of the containers ask for.
Scores == {100, 300}

\* Sandbox.OriginalOOMScoreAdj: the oom_score_adj the sandbox was created with.
OriginalOOMScoreAdj == 0

\* specutils.ContainerTypeSandbox: the container type of a pause container.
ContainerTypeSandbox == "sandbox"

\* Mount sources of the OCI specs: one directory that containers of the
\* sandbox may bind-mount, served by the gofer.
MountSrcs == {"vol"}

\* Everything a self filestore file can belong to: the rootfs of a container
\* (named by the container's id) or a mount source.
Sources == Ids \cup MountSrcs

\* No filestore file.
NoFile == "-"

\* The bundle of a container id: Process.OOMScoreAdj, the container type
\* annotation, spec.Mounts, and the mount hint the pod annotations give for
\* the mount source ("none", "local": sandbox-local, or "shared": sandbox-
\* local and shared between containers).  Of a mount are kept its source,
\* whether the gofer serves it, and the overlay medium the configuration and
\* the mount's options give it when no hint applies.  RootType is the type
\* of the rootfs ("erofs" with a rootfs hint that asks for an EROFS image),
\* HintType the mount type the hint names, Device whether the spec asks for
\* GPU or TPU devices.
NoBundle ==
  [OOMScoreAdj |-> NoScore, Type |-> "unspecified", Mounts |-> <<>>, Hint |-> "none",
   RootType |-> "bind", HintType |-> "bind", Device |-> FALSE]

NoProc == "-"

Statuses == {"Creating", "Created", "Running", "Paused", "Stopped"}

\* isRoot: the container is the root container of its sandbox.
isRoot(id) == id = SandboxID

\* "No container": the process holds no Container object.
NoCont ==
  [ID |-> "-", Spec |-> "-", Status |-> "-", Sandbox |-> FALSE, GoferPid |-> 0,
   Compat |-> FALSE, Confs |-> <<>>, Creator |-> NoProc,
   OOMScoreAdj |-> NoScore, Type |-> "-",
   goferIsChild |-> FALSE, parentCgroup |-> FALSE]

\* "No record": the container has no state file.
NoRec ==
  [ID |-> "-", Spec |-> "-", Status |-> "-", Sandbox |-> FALSE, GoferPid |-> 0,
   Compat |-> FALSE, Confs |-> <<>>, Creator |-> NoProc,
   OOMScoreAdj |-> NoScore, Type |-> "-"]

\* The fields of a Container that are serialised to the state file.
Persisted(c) ==
  [ID |-> c.ID, Spec |-> c.Spec, Status |-> c.Status, Sandbox |-> c.Sandbox,
   GoferPid |-> c.GoferPid, Compat |-> c.Compat, Confs |-> c.Confs,
   Creator |-> c.Creator, OOMScoreAdj |-> c.OOMScoreAdj, Type |-> c.Type]

\* A Container deserialised from the state file: unsaved fields are zero.
Loaded(d) ==
  [ID |-> d.ID, Spec |-> d.Spec, Status |-> d.Status, Sandbox |-> d.Sandbox,
   GoferPid |-> d.GoferPid, Compat |-> d.Compat, Confs |-> d.Confs,
   Creator |-> d.Creator, OOMScoreAdj |-> d.OOMScoreAdj, Type |-> d.Type,
   goferIsChild |-> FALSE, parentCgroup |-> FALSE]

\* changeStatus: the transitions it accepts without panicking.
validTransition(from, to) ==
  CASE to = "Creating" -> FALSE
    [] to = "Created"  -> from = "Creating"
    [] to = "Paused"   -> from = "Running"
    [] to = "Running"  -> from \in {"Created", "Paused"}
    [] to = "Stopped"  -> TRUE
    [] OTHER           -> FALSE

\* changeStatus panics: invalid transition, or nil sandbox for a live status.
changeStatusPanics(c, s) ==
  \/ ~validTransition(c.Status, s)
  \/ (s \in {"Created", "Paused", "Running"} /\ ~c.Sandbox)

\* changeStatus that does not record Stopped.
changeStatus_keepsLive(c, s) == IF s = "Stopped" THEN c ELSE [c EXCEPT !.Status = s]

\* c.changeStatus(s), the transition being valid: c.Status = s.
changeStatus(c, s) == [c EXCEPT !.Status = s]

\* requireStatus: nil error iff the status is one of the listed ones.
requireStatus(c, statuses) == c.Status \in statuses

\* Mutant of StartStatuses: a paused container may be started as well.
StartStatuses_orPaused == {"Created", "Paused"}

\* Statuses admitted by startImpl, Pause, Resume, Execute, Event, Signal*.
StartStatuses == {"Created"}
PauseStatuses == {"Created", "Running"}
ResumeStatuses == {"Paused"}

\* Mutant of ExecuteStatuses: Execute admits what Event admits.
ExecuteStatuses_asEvent == {"Created", "Running", "Paused"}

ExecuteStatuses == {"Created", "Running"}
EventStatuses == {"Created", "Running", "Paused"}
SignalStatuses == {"Running", "Stopped"}
SignalProcessStatuses == {"Running"}

\* The outcome of an operation as seen by its caller p: r is "ok", "err" or
\* "panic", why names the step that failed.
Result(p, op, r, why) == [p |-> p, op |-> op, r |-> r, why |-> why]
NoResult == Result("-", "-", "-", "-")

\* What an operation did besides returning: whether it sent a request to the
\* sandbox, how many times it called Saver.UnlockOrDie, the saves, hooks and
\* pid-file write it made, in order, whether a best-effort hook failed, the
\* error its body ended with, and the IO files it made for the sentry.
Effect(w) ==
  [rpc |-> w.rpc, unlocks |-> w.unlocks, log |-> w.log, warn |-> w.warn,
   err |-> w.err, io |-> w.io]
NoEffect ==
  [rpc |-> FALSE, unlocks |-> 0, log |-> <<>>, warn |-> FALSE, err |-> "", io |-> <<>>]

VARIABLES
  mem,          \* mem[p]: the Container object process p holds (or NoCont)
  disk,         \* disk[id]: the record in the state file of id (or NoRec)
  lockHolder,   \* lockHolder[id]: the process holding id's advisory lock
  pc,           \* pc[p]: where process p is inside its current operation
  last,         \* outcome of the operation that returned last (forgotten when
                \* the next operation takes its lock)
  sandboxUp,    \* the sentry process of the sandbox is running
  sentryCont,   \* sentryCont[id]: the state of id inside the sentry
  kernelPaused, \* the sentry's kernel is paused
  sigPending,   \* sigPending[id]: a signal sent to id waits for the kernel to run
  eff,          \* what the operation that returned last did (see Effect)
  gofer,        \* gofer[pid]: "free", "alive", "zombie" (killed, unreaped), "gone"
  parentCg,     \* the parent cgroup of the sandbox is installed
  compatCg,     \* compatCg[id]: the compat cgroup of id is installed
  filestore,    \* filestore[src]: the container that created the self filestore
                \* file of src (of a mount source, or of the rootfs of the
                \* container src), NoFile when there is no file
  dir,          \* dir[id]: the container directory of id exists
  oomScore,     \* oom_score_adj of the sentry process
  bundle,       \* bundle[id]: what the OCI spec of id asks for (never changes)
  faults,       \* number of failures injected so far
  created,      \* created[id]: successful New calls since the last delete
  focus,        \* the container the commands of this run are issued for
  call          \* the call of a function of the command line made last: the
                \* function, its arguments and what it returned

vars == <<mem, disk, lockHolder, pc, last, eff, sandboxUp, sentryCont, kernelPaused,
          sigPending,
          oomScore, bundle,
          gofer, parentCg, compatCg, filestore, dir, faults, created, focus, call>>

\* No call of a function of the command line was made.
NoCall == [fn |-> "-", arg |-> "-", ret |-> "-"]

hostVars == <<gofer, parentCg, compatCg, filestore, dir, bundle>>
sentryVars == <<sandboxUp, sentryCont, kernelPaused, sigPending, oomScore>>

\* The Container built at the top of New (status Creating, nothing acquired).
\* Of the OCI spec are kept: the upper layer its rootfs is planned with,
\* Process.OOMScoreAdj and the container type annotation.
NewContainer(p, id, spec) ==
  [ID |-> id, Spec |-> spec, Status |-> "Creating", Sandbox |-> FALSE, GoferPid |-> 0,
   Compat |-> FALSE, Confs |-> <<>>, Creator |-> p,
   OOMScoreAdj |-> bundle[id].OOMScoreAdj, Type |-> bundle[id].Type,
   goferIsChild |-> FALSE, parentCgroup |-> FALSE]

Init ==
  /\ bundle = [i \in Ids |-> NoBundle]
  /\ oomScore = OriginalOOMScoreAdj
  /\ mem = [p \in Procs |-> NoCont]
  /\ disk = [i \in Ids |-> NoRec]
  /\ lockHolder = [i \in Ids |-> NoProc]
  /\ pc = [p \in Procs |-> "idle"]
  /\ last = NoResult
  /\ sandboxUp = FALSE
  /\ sentryCont = [i \in Ids |-> "none"]
  /\ kernelPaused = FALSE
  /\ sigPending = [i \in Ids |-> FALSE]
  /\ eff = NoEffect
  /\ gofer = [g \in Pids |-> "free"]
  /\ parentCg = FALSE
  /\ compatCg = [i \in Ids |-> FALSE]
  /\ filestore = [i \in Sources |-> NoFile]
  /\ dir = [i \in Ids |-> FALSE]
  /\ faults = 0
  /\ created = [i \in Ids |-> 0]
  /\ focus = SandboxID
  /\ call = NoCall

\* A failure may be injected only while the budget lasts.
CanFail == faults < MaxFaults

FreePids == {g \in Pids : gofer[g] = "free"}
FreshPid == CHOOSE g \in FreePids : \A h \in FreePids : g <= h

(***************************************************************************)
(* An operation body is a composition of steps over a "world": the         *)
(* caller's Container c plus everything the steps can touch.  A step that  *)
(* finds err set (an earlier step returned an error) does nothing, as the  *)
(* code returns at the first error.  f is the step chosen to fail.         *)
(***************************************************************************)
World(p) ==
  [c |-> mem[p], disk |-> disk, sandboxUp |-> sandboxUp,
   sentryCont |-> sentryCont, kernelPaused |-> kernelPaused,
   sigPending |-> sigPending, oomScore |-> oomScore, gofer |-> gofer,
   parentCg |-> parentCg, compatCg |-> compatCg, filestore |-> filestore,
   dir |-> dir,
   err |-> "", errs |-> FALSE, rpc |-> FALSE, unlocks |-> 0, armed |-> TRUE,
   log |-> <<>>, warn |-> FALSE, io |-> <<>>]

\* The step sends a request to the sandbox.
sent(w) == [w EXCEPT !.rpc = TRUE]

\* c.Saver.UnlockOrDie().
stUnlockOrDie(w) == [w EXCEPT !.unlocks = @ + 1]

\* unlock.Clean() of unlock := cleanup.Make(c.Saver.UnlockOrDie): runs the
\* cleanup unless it has run already.
stUnlockClean(w) ==
  IF w.armed THEN stUnlockOrDie([w EXCEPT !.armed = FALSE]) ELSE w

\* The lock of id after p's operation made the unlock calls counted in w.
Released(p, id, w) ==
  lockHolder' = [lockHolder EXCEPT ![id] = IF w.unlocks > 0 THEN NoProc ELSE p]

\* setupCgroupForRoot: installs the parent cgroup and, with the cgroup-parent
\* annotation, the container's own (compat) cgroup.  On error nothing stays.
stSetupCgroupForRoot(w, f, annot) ==
  IF w.err # "" THEN w
  ELSE IF f = "cgroup" THEN [w EXCEPT !.err = "cgroup"]
  ELSE [w EXCEPT !.c.parentCgroup = TRUE, !.c.Compat = annot,
                 !.parentCg = TRUE, !.compatCg[w.c.ID] = @ \/ annot]

\* setupCgroupForSubcontainer for a sub-container: installs its compat cgroup.
stSetupCgroupForSub(w, f) ==
  IF w.err # "" THEN w
  ELSE IF f = "cgroup" THEN [w EXCEPT !.err = "cgroup"]
  ELSE [w EXCEPT !.c.Compat = TRUE, !.compatCg[w.c.ID] = TRUE]

\* specutils.IsGoferMount.
IsGoferMount(m) == m.gofer

\* The gofer-serviced entries of spec.Mounts of c, in spec order.
GoferMounts(c) == SelectSeq(bundle[c.ID].Mounts, IsGoferMount)

\* MountHints.FindMount(src) of the sandbox, as "none", "local" or "shared".
FindMount(src) == IF src \in MountSrcs THEN bundle[SandboxID].Hint ELSE "none"

\* hint != nil && hint.IsSandboxLocal()
IsSandboxLocal(src) == FindMount(src) \in {"local", "shared"}

\* hint != nil && hint.ShouldShareMount()
ShouldShareMount(src) == FindMount(src) = "shared"

\* createGoferConf: the lower layer of a mount of the given type.
lowerOf(mountType) ==
  CASE mountType = "bind" -> "lisafs"
    [] mountType = "tmpfs" -> "none"
    [] mountType = "erofs" -> "erofs"

\* The conf initGoferConfs gives the rootfs: the lower layer by the type of
\* the rootfs hint, the upper layer by the overlay medium.
rootConf(c) == [lower |-> lowerOf(bundle[c.ID].RootType), upper |-> c.Spec]

\* The conf initGoferConfs gives a gofer mount: with a sandbox-local hint,
\* the upper layer is self and the lower layer that of the hint's mount
\* type; otherwise Lisafs under the medium of configuration and options.
mountConf(m) ==
  IF IsSandboxLocal(m.src)
  THEN [lower |-> lowerOf(bundle[SandboxID].HintType), upper |-> "self"]
  ELSE [lower |-> "lisafs", upper |-> m.upper]

\* What one run of initGoferConfs appends: the rootfs conf, then the conf of
\* every gofer mount in spec order.
plannedConfs(c) ==
  <<rootConf(c)>> \o [k \in 1..Len(GoferMounts(c)) |-> mountConf(GoferMounts(c)[k])]

\* initGoferConfs: appends the confs to c.GoferMountConfs.
stInitGoferConfs(w) ==
  IF w.err # "" THEN w
  ELSE [w EXCEPT !.c.Confs = @ \o plannedConfs(w.c)]

\* GoferMountConf.ShouldUseLisafs, ShouldUseErofs.
ShouldUseLisafs(cfg) == cfg.lower = "lisafs"
ShouldUseErofs(cfg) == cfg.lower = "erofs"

\* shouldCreateDeviceGofer: GPU or TPU functionality is requested.
shouldCreateDeviceGofer(c) == bundle[c.ID].Device

\* Mutant of shouldSpawnGofer: the device gofer is not looked at.
shouldSpawnGofer_noDevice(c) ==
  \E k \in 1..Len(c.Confs) : ShouldUseLisafs(c.Confs[k])

\* shouldSpawnGofer: Lisafs mounts need the gofer, and so does a device gofer.
shouldSpawnGofer(c) ==
  \/ \E k \in 1..Len(c.Confs) : ShouldUseLisafs(c.Confs[k])
  \/ shouldCreateDeviceGofer(c)

\* The IO files createGoferProcess makes for the sentry when it spawns a
\* gofer: a socket for every Lisafs conf, the opened image for an EROFS conf.
sandEnds(c) ==
  LET S == SelectSeq(c.Confs, LAMBDA cfg : ShouldUseLisafs(cfg) \/ ShouldUseErofs(cfg))
  IN [k \in 1..Len(S) |-> IF ShouldUseLisafs(S[k]) THEN "socket" ELSE "image"]

\* createGoferProcess after planning: without a gofer to spawn, it opens the
\* rootfs image and returns it as the only IO file (goferless mode is only
\* possible with an EROFS rootfs); otherwise it starts the gofer and records
\* its pid.
stSpawnGofer(w, f, pid) ==
  IF w.err # "" THEN w
  ELSE IF ~shouldSpawnGofer(w.c)
       THEN IF ~ShouldUseErofs(w.c.Confs[1]) THEN [w EXCEPT !.err = "panic"]
            ELSE IF f = "gofer" THEN [w EXCEPT !.err = "gofer"]
            ELSE [w EXCEPT !.io = <<"image">>]
  ELSE IF f = "gofer" THEN [w EXCEPT !.err = "gofer"]
  ELSE [w EXCEPT !.c.GoferPid = pid, !.c.goferIsChild = TRUE,
                 !.gofer[pid] = "alive", !.io = sandEnds(w.c)]

\* IsSelfBacked of the rootfs conf.
rootSelfBacked(c) == c.Confs # <<>> /\ c.Confs[1].upper = "self"

\* The gofer mounts of c, each with IsSelfBacked of the conf forEachSelfMount
\* looks up for it: gofer mount k has GoferMountConfs[k].
goferMountsSelf(c) ==
  [k \in 1..Len(GoferMounts(c)) |->
     [src |-> GoferMounts(c)[k].src, self |-> c.Confs[1 + k].upper = "self"]]

\* forEachSelfMount: the sources of the self-backed mounts of c, rootfs
\* first; none when GoferMountConfs is nil.
selfMounts(c) ==
  IF c.Confs = <<>> THEN <<>>
  ELSE LET S == SelectSeq(goferMountsSelf(c), LAMBDA x : x.self)
       IN (IF rootSelfBacked(c) THEN <<c.ID>> ELSE <<>>)
          \o [k \in 1..Len(S) |-> S[k].src]

\* The same with O_EXCL for every mount, shared or not.
createFails_alwaysExcl(w, srcs, k) ==
  \/ w.filestore[srcs[k]] # NoFile
  \/ \E j \in 1..(k - 1) : srcs[j] = srcs[k]

\* createGoferFilestoreInSelf for entry k of the self-backed mounts srcs,
\* the entries before it done: the open with O_CREAT, and with O_EXCL unless
\* the mount is shared, fails when the file exists.
createFails(w, srcs, k) ==
  /\ ~ShouldShareMount(srcs[k])
  /\ \/ w.filestore[srcs[k]] # NoFile
     \/ \E j \in 1..(k - 1) : srcs[j] = srcs[k]

\* The loop of createGoferFilestores over the self-backed mounts srcs: it
\* returns at the first error; every file that did not exist and was opened
\* before that has been created.
createSelfFilestores(w, srcs) ==
  LET bad == {k \in 1..Len(srcs) : createFails(w, srcs, k)}
      done == {srcs[k] : k \in {n \in 1..Len(srcs) : \A b \in bad : n < b}}
  IN [w EXCEPT !.filestore = [x \in Sources |->
                                IF x \in done /\ @[x] = NoFile THEN w.c.ID ELSE @[x]],
               !.err = IF bad = {} THEN "" ELSE "filestore-exists"]

\* createGoferFilestores: a self-backed rootfs gets a filestore file, created
\* with O_EXCL (the mount is not shared): an existing file is an error.
stCreateGoferFilestores(w, f) ==
  IF w.err # "" THEN w
  ELSE IF ~shouldSpawnGofer(w.c) THEN w
  ELSE IF f = "filestore" THEN [w EXCEPT !.err = "filestore"]
  ELSE createSelfFilestores(w, selfMounts(w.c))

\* sandbox.New: spawns the sentry holding the root container.
stSandboxNew(w, f) ==
  IF w.err # "" THEN w
  ELSE IF f = "sentry" THEN [w EXCEPT !.err = "sentry"]
  ELSE IF w.sandboxUp THEN [w EXCEPT !.err = "sentry-exists"]
  ELSE [w EXCEPT !.c.Sandbox = TRUE, !.sandboxUp = TRUE,
                 !.sentryCont = [i \in Ids |-> IF i = w.c.ID THEN "created" ELSE "none"],
                 !.kernelPaused = FALSE, !.sigPending = [i \in Ids |-> FALSE],
                 !.oomScore = OriginalOOMScoreAdj]

\* Load of the root container's record: the sub-container shares its Sandbox.
stLoadSandbox(w) ==
  IF w.err # "" THEN w
  ELSE IF w.disk[SandboxID] = NoRec THEN [w EXCEPT !.err = "load"]
  ELSE [w EXCEPT !.c.Sandbox = w.disk[SandboxID].Sandbox]

\* Sandbox.CreateSubcontainer RPC.
stCreateSubcontainer(w, f) ==
  IF w.err # "" THEN w
  ELSE IF f = "rpc" THEN [sent(w) EXCEPT !.err = "rpc"]
  ELSE IF ~w.sandboxUp \/ w.sentryCont[w.c.ID] # "none"
       THEN [sent(w) EXCEPT !.err = "rpc-rejected"]
  ELSE [sent(w) EXCEPT !.sentryCont[w.c.ID] = "created"]

\* c.changeStatus(s): panics on a transition it does not accept.
stChangeStatus(w, s) ==
  IF w.err # "" THEN w
  ELSE IF changeStatusPanics(w.c, s) THEN [w EXCEPT !.err = "panic"]
  ELSE [w EXCEPT !.c = changeStatus(w.c, s)]

\* The step is recorded in the log of the operation.
logged(w, e) == [w EXCEPT !.log = Append(@, e)]

\* saveLocked: writes the Container to the state file.
stSaveLocked(w, f) ==
  IF w.err # "" THEN w
  ELSE IF f = "save" THEN [w EXCEPT !.err = "save"]
  ELSE [logged(w, "save") EXCEPT !.disk[w.c.ID] = Persisted(w.c)]

\* executeHooks: runs the hooks of one kind; a failing hook is an error.
executeHooks(w, f, kind) ==
  IF w.err # "" THEN w
  ELSE IF f = kind THEN [logged(w, kind) EXCEPT !.err = kind]
  ELSE logged(w, kind)

\* executeHooksBestEffort: runs the hooks of one kind; a failing hook is
\* logged as a warning.
executeHooksBestEffort(w, f, kind) ==
  IF w.err # "" THEN w
  ELSE IF f = kind THEN [logged(w, kind) EXCEPT !.warn = TRUE]
  ELSE logged(w, kind)

\* Hooks whose failure is not an error of the operation that runs them.
BestEffortHooks == {"poststart", "poststop"}

\* Mutant of stCreateHooks: createRuntime hooks run before prestart hooks.
stCreateHooks_swapped(w, f) ==
  executeHooks(executeHooks(w, f, "createRuntime"), f, "prestart")

\* New runs the prestart hooks, then the createRuntime hooks; the
\* createContainer hooks are skipped with a warning.
stCreateHooks(w, f) ==
  executeHooks(executeHooks(w, f, "prestart"), f, "createRuntime")

\* New writes the pid file, the last thing it does.
stWritePIDFile(w, f) ==
  IF w.err # "" THEN w
  ELSE IF f = "pidfile" THEN [w EXCEPT !.err = "pidfile"]
  ELSE logged(w, "pidfile")

\* Mutant of stSealAndSave: the record is saved before it is sealed.
stSealAndSave_saveFirst(w, f) == stChangeStatus(stSaveLocked(w, f), "Created")

\* New seals the container (Creating -> Created) and then saves it.
stSealAndSave(w, f) == stSaveLocked(stChangeStatus(w, "Created"), f)

\* Body of New between LockForNew and the return, for a root container.
NewRootBody(w, f, annot, pid) ==
  stWritePIDFile(stCreateHooks(
    stSealAndSave(
      stSandboxNew(
        stCreateGoferFilestores(
          stSpawnGofer(
            stInitGoferConfs(
              stSetupCgroupForRoot(w, f, annot)), f, pid), f), f), f),
    f), f)

\* Body of New between LockForNew and the return, for a sub-container.
NewSubBody(w, f) ==
  stWritePIDFile(stCreateHooks(
    stSealAndSave(
      stCreateSubcontainer(
        stSetupCgroupForSub(stLoadSandbox(w), f), f), f),
    f), f)

\* Failure points of New that failure injection can select.
NewRootFaults ==
  {"cgroup", "gofer", "filestore", "sentry", "save", "prestart", "createRuntime",
   "pidfile"}
NewSubFaults == {"cgroup", "rpc", "save", "prestart", "createRuntime", "pidfile"}

\* Upper layers the rootfs plan can come out with.
Uppers == {"none", "self"}

\* Writes the world back to the variables it covers.
Commit(w) ==
  /\ disk' = w.disk
  /\ sandboxUp' = w.sandboxUp
  /\ sentryCont' = w.sentryCont
  /\ kernelPaused' = w.kernelPaused
  /\ sigPending' = w.sigPending
  /\ oomScore' = w.oomScore
  /\ UNCHANGED bundle
  /\ gofer' = w.gofer
  /\ parentCg' = w.parentCg
  /\ compatCg' = w.compatCg
  /\ filestore' = w.filestore
  /\ dir' = w.dir

\* The step f was injected (counts against the budget) iff it is what failed.
Charge(w, f) ==
  faults' = IF f # "none" /\ (w.err = f \/ (f \in BestEffortHooks /\ w.warn))
            THEN faults + 1 ELSE faults

Min(a, b) == IF a < b THEN a ELSE b

(***************************************************************************)
(* New, first half: LockForNew.  Blocks until the lock is free; fails when *)
(* a record with this id exists, in which case the cleanup is released and *)
(* nothing was acquired.                                                   *)
(***************************************************************************)
NewLockForNew(p, id, spec) ==
  /\ pc[p] = "idle" /\ mem[p] = NoCont
  /\ lockHolder[id] = NoProc
  /\ IF disk[id] # NoRec
     THEN /\ last' = Result(p, "New", "err", "exists")
          /\ eff' = NoEffect
          /\ UNCHANGED <<mem, lockHolder, pc, dir>>
     ELSE /\ mem' = [mem EXCEPT ![p] = NewContainer(p, id, spec)]
          /\ lockHolder' = [lockHolder EXCEPT ![id] = p]
          /\ dir' = [dir EXCEPT ![id] = TRUE]
          /\ pc' = [pc EXCEPT ![p] = "new_locked"]
          /\ UNCHANGED <<last, eff>>
  /\ UNCHANGED <<disk, sentryVars, gofer, parentCg, compatCg, filestore, bundle,
                 faults, created, focus, call>>

(***************************************************************************)
(* New, second half: everything up to the return.  The deferred unlock     *)
(* runs first; on error the deferred cleanup (Destroy) is still to run and *)
(* has to take the lock again.                                             *)
(***************************************************************************)
NewBody(p) ==
  /\ pc[p] = "new_locked"
  /\ LET id == mem[p].ID IN
     \E f \in {"none"} \cup (IF CanFail THEN NewRootFaults \cup NewSubFaults ELSE {}),
        annot \in BOOLEAN :
       /\ isRoot(id) => f \in NewRootFaults \cup {"none"} /\ FreePids # {}
       /\ ~isRoot(id) => f \in NewSubFaults \cup {"none"} /\ ~annot
                          /\ lockHolder[SandboxID] = NoProc
       /\ LET w == IF isRoot(id)
                   THEN NewRootBody(World(p), f, annot, FreshPid)
                   ELSE NewSubBody(World(p), f)
          IN /\ Commit(w)
             /\ Charge(w, f)
             /\ UNCHANGED <<focus, call>>
             /\ Released(p, id, stUnlockOrDie(w))
             /\ eff' = Effect(stUnlockOrDie(w))
             /\ IF w.err = ""
                THEN /\ mem' = [mem EXCEPT ![p] = [w.c EXCEPT !.parentCgroup = FALSE]]
                     /\ pc' = [pc EXCEPT ![p] = "idle"]
                     /\ last' = Result(p, "New", "ok", "")
                     /\ created' = [created EXCEPT ![id] = Min(@ + 1, 2)]
                ELSE /\ mem' = [mem EXCEPT ![p] = w.c]
                     /\ pc' = [pc EXCEPT ![p] = "cleanup"]
                     /\ UNCHANGED <<last, created>>

(***************************************************************************)
(* Destroy.  Unlike the other bodies it does not return at the first       *)
(* error: stop() does, but Destroy records the error (errs) and goes on.   *)
(***************************************************************************)

\* Sandbox.DestroyContainer RPC: destroying the root container destroys the
\* sandbox; destroying a sub-container of a sandbox that is gone is a no-op.
sentryDestroyContainer(w) ==
  IF isRoot(w.c.ID)
  THEN [w EXCEPT !.sandboxUp = FALSE, !.sentryCont = [i \in Ids |-> "none"],
                 !.kernelPaused = FALSE, !.sigPending = [i \in Ids |-> FALSE]]
  ELSE [w EXCEPT !.sentryCont[w.c.ID] = "none", !.sigPending[w.c.ID] = FALSE]

\* unix.Kill(pid, SIGKILL): a killed gofer stays a zombie until it is reaped.
killGofer(g) == IF g = "alive" THEN "zombie" ELSE g

\* The same with the parent cgroup remembered for any container.
stopSandbox_anyContainer(w, f) ==
  IF ~w.c.Sandbox THEN [w EXCEPT !.c.parentCgroup = FALSE]
  ELSE IF f = "destroy-rpc" THEN [sent(w) EXCEPT !.err = "destroy-rpc"]
  ELSE [sentryDestroyContainer(sent(w)) EXCEPT !.c.Sandbox = FALSE,
                                               !.c.parentCgroup = TRUE]

\* stop(), first part: tell the sandbox to destroy the container, then forget
\* the sandbox.  The parent cgroup is remembered only for the root container.
stopSandbox(w, f) ==
  IF ~w.c.Sandbox THEN [w EXCEPT !.c.parentCgroup = FALSE]
  ELSE IF f = "destroy-rpc" THEN [sent(w) EXCEPT !.err = "destroy-rpc"]
  ELSE [sentryDestroyContainer(sent(w)) EXCEPT !.c.Sandbox = FALSE,
                                               !.c.parentCgroup = isRoot(w.c.ID)]

\* stop(), second part: SIGKILL to the gofer.
stopKillGofer(w) ==
  IF w.err # "" \/ w.c.GoferPid = 0 THEN w
  ELSE [w EXCEPT !.gofer[w.c.GoferPid] = killGofer(@)]

\* Mutant of waitForStopped: the gofer pid is forgotten without wait4.
waitForStopped_noReap(w) ==
  IF w.err # "" \/ w.c.GoferPid = 0 THEN w
  ELSE [w EXCEPT !.c.GoferPid = 0]

\* waitForStopped: wait4 for a child gofer, else poll kill(pid, 0) until the
\* pid is gone or the 5 seconds are over.
waitForStopped(w) ==
  IF w.err # "" \/ w.c.GoferPid = 0 THEN w
  ELSE IF w.c.goferIsChild
       THEN [w EXCEPT !.gofer[w.c.GoferPid] = "gone", !.c.GoferPid = 0]
  ELSE IF w.gofer[w.c.GoferPid] \in {"gone", "free"}
       THEN [w EXCEPT !.c.GoferPid = 0]
  ELSE [w EXCEPT !.err = "gofer-timeout"]

\* stop(), last part: uninstall the compat cgroup, then the parent cgroup.
stopUninstall(w, f) ==
  IF w.err # "" THEN w
  ELSE IF w.c.Compat /\ f = "uninstall" THEN [w EXCEPT !.err = "uninstall"]
  ELSE [w EXCEPT !.compatCg[w.c.ID] = IF w.c.Compat THEN FALSE ELSE @,
                 !.parentCg = IF w.c.parentCgroup THEN FALSE ELSE @]

stop(w, f) == stopUninstall(waitForStopped(stopKillGofer(stopSandbox(w, f))), f)

\* Moves the error of a step into the list of errors Destroy aggregates.
collect(w) == IF w.err = "" THEN w ELSE [w EXCEPT !.err = "", !.errs = TRUE]

\* Saver.Destroy: removes the state file and the directory that holds it.
saverDestroy(w, f) ==
  IF f = "rmdir" THEN [w EXCEPT !.err = "rmdir"]
  ELSE [w EXCEPT !.disk[w.c.ID] = NoRec, !.dir[w.c.ID] = FALSE]

\* Destroy's callback for entry k of the self-backed mounts srcs: with a
\* sandbox, the filestore of a shared mount is left alone; otherwise
\* os.Remove.
removes(srcs, k, sb) == ~(sb /\ ShouldShareMount(srcs[k]))

\* forEachSelfMount with that callback: every os.Remove is made, and the
\* error of one that found no file is recorded.
removeEachSelfFilestore(w, srcs, sb) ==
  LET ks == {k \in 1..Len(srcs) : removes(srcs, k, sb)}
      missing == {k \in ks : \/ w.filestore[srcs[k]] = NoFile
                              \/ \E j \in ks : j < k /\ srcs[j] = srcs[k]}
  IN [w EXCEPT !.filestore = [x \in Sources |->
                                IF x \in {srcs[k] : k \in ks} THEN NoFile ELSE @[x]],
               !.err = IF missing = {} THEN w.err ELSE "filestore-missing"]

\* Destroy of the root container, with a sandbox: os.Remove of the filestore
\* of every shared mount hint; a missing file is not an error.
removeSharedFilestores(w, sb) ==
  IF sb /\ isRoot(w.c.ID)
  THEN [w EXCEPT !.filestore =
          [x \in Sources |-> IF x \in MountSrcs /\ ShouldShareMount(x)
                              THEN NoFile ELSE @[x]]]
  ELSE w

\* forEachSelfMount + os.Remove of the filestores of the self-backed mounts,
\* then the filestores of the shared mounts; sb is c.Sandbox != nil as Destroy
\* found it.
removeSelfFilestores(w, sb) ==
  removeSharedFilestores(removeEachSelfFilestore(w, selfMounts(w.c), sb), sb)

\* LoadSandbox: the ids of the sandbox that have a record.
LoadSandbox(w) == {i \in Ids : w.disk[i] # NoRec}

\* The containers whose score counts: not of type sandbox, score specified.
scored(w) ==
  {i \in LoadSandbox(w) : /\ w.disk[i].Type # ContainerTypeSandbox
                          /\ w.disk[i].OOMScoreAdj # NoScore}

\* The lowest score among the containers that count.
lowScore(w) ==
  CHOOSE x \in {w.disk[i].OOMScoreAdj : i \in scored(w)} :
    \A i \in scored(w) : x <= w.disk[i].OOMScoreAdj

\* setOOMScoreAdj(s.Getpid(), score): a process that is gone is not an error.
setOOMScoreAdj(w, score) == IF w.sandboxUp THEN [w EXCEPT !.oomScore = score] ELSE w

\* adjustSandboxOOMScoreAdj: the sentry gets the lowest score of its
\* containers; without any, a destroy reverts it to the original score.
adjustSandboxOOMScoreAdj(w, destroy) ==
  IF isRoot(w.c.ID) /\ destroy THEN w
  ELSE IF LoadSandbox(w) = {} THEN w
  ELSE IF scored(w) # {} THEN setOOMScoreAdj(w, lowScore(w))
  ELSE IF destroy THEN setOOMScoreAdj(w, OriginalOOMScoreAdj)
  ELSE w

\* The end of Destroy: the OOM adjustment, made if the container had a sandbox
\* when Destroy began (sb != nil).
stDestroyAdjust(w, sb) == IF sb THEN adjustSandboxOOMScoreAdj(w, TRUE) ELSE w

\* Mutant of DestroyBodyOf: Saver.Destroy is left out.
DestroyBodyOf_noSaverDestroy(w, f) ==
  LET w1 == collect(stop(w, f))
      w3 == collect(removeSelfFilestores(w1, w.c.Sandbox))
      w4 == stDestroyAdjust(w3, w.c.Sandbox)
      w5 == executeHooksBestEffort(
              [w4 EXCEPT !.c = changeStatus(w4.c, "Stopped")], f, "poststop")
  IN [w5 EXCEPT !.c.parentCgroup = FALSE]

\* The whole of Destroy between taking and releasing the lock.
DestroyBodyOf(w, f) ==
  LET w1 == collect(stop(w, f))
      w2 == collect(saverDestroy(w1, f))
      w3 == collect(removeSelfFilestores(w2, w.c.Sandbox))
      w4 == stDestroyAdjust(w3, w.c.Sandbox)
      w5 == executeHooksBestEffort(
              [w4 EXCEPT !.c = changeStatus(w4.c, "Stopped")], f, "poststop")
  IN [w5 EXCEPT !.c.parentCgroup = FALSE]

DestroyFaults == {"destroy-rpc", "uninstall", "rmdir", "poststop"}

\* The fault f had the chance to strike in this Destroy.
DestroyFaultApplies(c, f) ==
  \/ f = "destroy-rpc" /\ c.Sandbox
  \/ f = "uninstall" /\ c.Compat
  \/ f = "rmdir"
  \/ f = "poststop"

\* Children of an ending process are re-parented to init, which reaps the
\* dead ones: the gofer the process spawned stops being a zombie.
reparent(c, g) ==
  [x \in Pids |-> IF c.goferIsChild /\ x = c.GoferPid /\ g[x] = "zombie"
                  THEN "gone" ELSE g[x]]

\* Operations that take the container lock before they look at the Container.
LockedOps == {"start", "restore", "pause", "resume", "destroy"}

\* c.Saver.lock(BlockAcquire) at the top of a locking operation.
Lock(p, op) ==
  /\ pc[p] = "idle" /\ mem[p] # NoCont
  /\ op \in LockedOps
  /\ lockHolder[mem[p].ID] = NoProc
  /\ lockHolder' = [lockHolder EXCEPT ![mem[p].ID] = p]
  /\ pc' = [pc EXCEPT ![p] = op]
  /\ created' = IF op = "destroy" THEN [created EXCEPT ![mem[p].ID] = 0] ELSE created
  /\ last' = NoResult
  /\ eff' = NoEffect
  /\ UNCHANGED <<mem, disk, sentryVars, hostVars, faults, focus, call>>

\* The deferred cleanup of a failed New takes the lock again for its Destroy.
CleanupLock(p) ==
  /\ pc[p] = "cleanup"
  /\ lockHolder[mem[p].ID] = NoProc
  /\ lockHolder' = [lockHolder EXCEPT ![mem[p].ID] = p]
  /\ pc' = [pc EXCEPT ![p] = "cleanup_locked"]
  /\ UNCHANGED <<mem, disk, last, eff, sentryVars, hostVars, faults, created, focus, call>>

\* Destroy called by the holder of a Container: body and deferred unlock.
DestroyBody(p) ==
  /\ pc[p] = "destroy"
  /\ \E f \in {"none"} \cup (IF CanFail THEN DestroyFaults ELSE {}) :
       /\ f # "none" => DestroyFaultApplies(mem[p], f)
       /\ LET w == DestroyBodyOf(World(p), f) IN
            /\ Commit(w)
            /\ faults' = IF f = "none" THEN faults ELSE faults + 1
            /\ Released(p, mem[p].ID, stUnlockOrDie(w))
            /\ eff' = Effect(stUnlockOrDie(w))
            /\ pc' = [pc EXCEPT ![p] = "idle"]
            /\ mem' = [mem EXCEPT ![p] = w.c]
            /\ last' = Result(p, "Destroy", IF w.errs THEN "err" ELSE "ok",
                               IF f # "none" THEN "fault" ELSE "")
            /\ UNCHANGED <<created, focus, call>>

\* Destroy run as the cleanup of a failed New: its errors are ignored, New
\* returns the error that made it fail and no Container.
CleanupBody(p) ==
  /\ pc[p] = "cleanup_locked"
  /\ \E f \in {"none"} \cup (IF CanFail THEN DestroyFaults ELSE {}) :
       /\ f # "none" => DestroyFaultApplies(mem[p], f)
       /\ LET w == DestroyBodyOf(World(p), f) IN
            /\ Commit(w)
            /\ faults' = IF f = "none" THEN faults ELSE faults + 1
            /\ Released(p, mem[p].ID, stUnlockOrDie(w))
            /\ eff' = Effect(stUnlockOrDie(w))
            /\ pc' = [pc EXCEPT ![p] = "idle"]
            /\ mem' = [mem EXCEPT ![p] = NoCont]
            /\ last' = Result(p, "New", "err", IF f # "none" THEN "unclean" ELSE "failed")
            /\ UNCHANGED <<created, focus, call>>

\* Load: reads the record of id under its lock into a fresh Container.
Load(p, id) ==
  /\ pc[p] = "idle" /\ mem[p] = NoCont
  /\ id = focus
  /\ lockHolder[id] = NoProc
  /\ disk[id] # NoRec
  /\ mem' = [mem EXCEPT ![p] = Loaded(disk[id])]
  /\ UNCHANGED <<disk, lockHolder, pc, last, eff, sentryVars, hostVars, faults, created, focus, call>>

\* The CLI process ends: its Container object is gone.
Exit(p) ==
  /\ pc[p] = "idle" /\ mem[p] # NoCont
  /\ mem' = [mem EXCEPT ![p] = NoCont]
  /\ last' = IF last.p = p THEN NoResult ELSE last
  /\ eff' = IF last.p = p THEN NoEffect ELSE eff
  /\ gofer' = reparent(mem[p], gofer)
  /\ UNCHANGED <<disk, lockHolder, pc, sentryVars, parentCg, compatCg, filestore, dir,
                 bundle,
                 faults, created, focus, call>>

\* requireStatus as a step: the operation is rejected in any other status.
stRequireStatus(w, statuses) ==
  IF w.err # "" THEN w
  ELSE IF requireStatus(w.c, statuses) THEN w
  ELSE [w EXCEPT !.err = "state"]

\* Sandbox.StartRoot / StartSubcontainer / Restore RPC: the sentry starts a
\* container it holds as created.
stStartRPC(w, f) ==
  IF w.err # "" THEN w
  ELSE IF f = "rpc" THEN [sent(w) EXCEPT !.err = "rpc"]
  ELSE IF ~w.sandboxUp \/ w.sentryCont[w.c.ID] # "created"
       THEN [sent(w) EXCEPT !.err = "rpc-rejected"]
  ELSE [sent(w) EXCEPT !.sentryCont[w.c.ID] = "running"]

\* startImpl for a sub-container: plan, spawn the gofer, create filestores.
stStartGofer(w, f, pid) ==
  IF isRoot(w.c.ID) THEN w
  ELSE stCreateGoferFilestores(stSpawnGofer(stInitGoferConfs(w), f, pid), f)

\* Mutant of stStartUnlock: the early unlock calls UnlockOrDie directly and
\* leaves the deferred cleanup armed.
stStartUnlock_direct(w) ==
  IF w.err = "" THEN stUnlockClean(stUnlockOrDie(w)) ELSE stUnlockClean(w)

\* startImpl's unlocks: unlock.Clean() before the OOM adjustment on the
\* success path, and the deferred unlock.Clean() on every path.
stStartUnlock(w) ==
  IF w.err = "" THEN stUnlockClean(stUnlockClean(w)) ELSE stUnlockClean(w)

\* The end of startImpl: once the lock is released, the OOM adjustment.
stStartAdjust(w) ==
  IF w.err = "" THEN adjustSandboxOOMScoreAdj(w, FALSE) ELSE w

\* Mutant of stPoststart: a failing poststart hook is an error of Start.
stPoststart_fatal(w, f) == executeHooks(w, f, "poststart")

\* startImpl runs the poststart hooks once the container runs in the sentry;
\* the startContainer hooks are skipped with a warning.
stPoststart(w, f) == executeHooksBestEffort(w, f, "poststart")

\* startImpl between lock and unlock.
StartBodyOf(w, f, pid) ==
  stSaveLocked(
    stChangeStatus(
      stPoststart(
        stStartRPC(
          stStartGofer(stRequireStatus(w, StartStatuses), f, pid), f), f),
      "Running"), f)

StartFaults == {"gofer", "filestore", "rpc", "poststart", "save"}

\* The fault f struck in the startImpl that ended as w.
StartFaultStruck(w, f) ==
  IF f \in BestEffortHooks THEN w.warn \/ w.err = f ELSE w.err = f

\* Lifecycle.Pause in the sentry: pauses the kernel, whatever the container.
sentryPause(w) == [w EXCEPT !.kernelPaused = TRUE]

\* Lifecycle.Resume in the sentry: unpauses the kernel.  The tasks run again
\* and take the signals that were sent to them meanwhile.
sentryResume(w) ==
  [w EXCEPT !.kernelPaused = FALSE,
            !.sigPending = [i \in Ids |-> FALSE],
            !.sentryCont = [i \in Ids |-> IF w.sigPending[i] /\ @[i] = "running"
                                          THEN "stopped" ELSE @[i]]]

\* Sandbox.Pause RPC.
stPauseRPC(w, f) ==
  IF w.err # "" THEN w
  ELSE IF f = "rpc" THEN [sent(w) EXCEPT !.err = "rpc"]
  ELSE IF ~w.sandboxUp THEN [sent(w) EXCEPT !.err = "rpc-rejected"]
  ELSE sentryPause(sent(w))

\* Sandbox.Resume RPC.
stResumeRPC(w, f) ==
  IF w.err # "" THEN w
  ELSE IF f = "rpc" THEN [sent(w) EXCEPT !.err = "rpc"]
  ELSE IF ~w.sandboxUp THEN [sent(w) EXCEPT !.err = "rpc-rejected"]
  ELSE sentryResume(sent(w))

\* Pause between lock and unlock.
PauseBodyOf(w, f) ==
  stSaveLocked(
    stChangeStatus(stPauseRPC(stRequireStatus(w, PauseStatuses), f), "Paused"), f)

\* Resume between lock and unlock.
ResumeBodyOf(w, f) ==
  stSaveLocked(
    stChangeStatus(stResumeRPC(stRequireStatus(w, ResumeStatuses), f), "Running"), f)

RpcFaults == {"rpc", "save"}

\* The end of a locked operation: the deferred unlock runs on return as well
\* as on panic; a panic ends the process.
Finish(p, op, w, f) ==
  /\ Charge(w, f)
  /\ Released(p, mem[p].ID, w)
  /\ eff' = Effect(w)
  /\ pc' = [pc EXCEPT ![p] = "idle"]
  /\ IF w.err = "panic"
     THEN /\ Commit([w EXCEPT !.gofer = reparent(w.c, @)])
          /\ mem' = [mem EXCEPT ![p] = NoCont]
          /\ last' = Result(p, op, "panic", "transition")
     ELSE /\ Commit(w)
          /\ mem' = [mem EXCEPT ![p] = w.c]
          /\ last' = Result(p, op, IF w.err = "" THEN "ok" ELSE "err", w.err)
  /\ UNCHANGED <<created, focus, call>>

\* Start and Restore: startImpl after the lock was taken.
StartBody(p) ==
  /\ pc[p] \in {"start", "restore"}
  /\ \E f \in {"none"} \cup (IF CanFail THEN StartFaults ELSE {}) :
       /\ isRoot(mem[p].ID) => f \in {"none", "rpc", "poststart", "save"}
       /\ (~isRoot(mem[p].ID) /\ requireStatus(mem[p], StartStatuses))
            => /\ FreePids # {}
               /\ Len(mem[p].Confs) <= (MaxConfs - 1) * Len(plannedConfs(mem[p]))
       /\ LET w == StartBodyOf(World(p), f, IF FreePids # {} THEN FreshPid ELSE 0)
          IN /\ (f # "none" => StartFaultStruck(w, f))
             /\ Finish(p, IF pc[p] = "start" THEN "Start" ELSE "Restore",
                       stStartAdjust(stStartUnlock(w)), f)

PauseBody(p) ==
  /\ pc[p] = "pause"
  /\ \E f \in {"none"} \cup (IF CanFail THEN RpcFaults ELSE {}) :
       LET w == PauseBodyOf(World(p), f)
       IN (f # "none" => w.err = f) /\ Finish(p, "Pause", stUnlockOrDie(w), f)

ResumeBody(p) ==
  /\ pc[p] = "resume"
  /\ \E f \in {"none"} \cup (IF CanFail THEN RpcFaults ELSE {}) :
       LET w == ResumeBodyOf(World(p), f)
       IN (f # "none" => w.err = f) /\ Finish(p, "Resume", stUnlockOrDie(w), f)

\* Wait: Sandbox.Wait returns once the container has exited; the status is
\* changed in memory only, without the lock.
Wait(p) ==
  /\ pc[p] = "idle" /\ mem[p] # NoCont /\ mem[p].Sandbox
  /\ LET id == mem[p].ID IN
       \/ /\ sandboxUp /\ sentryCont[id] = "stopped"
          /\ mem' = [mem EXCEPT ![p] = changeStatus(mem[p], "Stopped")]
          /\ last' = Result(p, "Wait", "ok", "")
          /\ eff' = [NoEffect EXCEPT !.rpc = TRUE]
       \/ /\ ~sandboxUp \/ sentryCont[id] = "none"
          /\ last' = Result(p, "Wait", "err", "rpc-rejected")
          /\ eff' = [NoEffect EXCEPT !.rpc = TRUE]
          /\ UNCHANGED mem
  /\ UNCHANGED <<disk, lockHolder, pc, sentryVars, hostVars, faults, created, focus, call>>

\* CheckStopped: asks the sentry for the container's runtime state.
CheckStopped(p) ==
  /\ pc[p] = "idle" /\ mem[p] # NoCont /\ mem[p].Sandbox
  /\ LET stoppedNow == ~sandboxUp \/ sentryCont[mem[p].ID] \in {"stopped", "none"}
     IN mem' = [mem EXCEPT ![p] = IF stoppedNow THEN changeStatus(@, "Stopped") ELSE @]
  /\ UNCHANGED <<disk, lockHolder, pc, last, eff, sentryVars, hostVars, faults, created, focus, call>>

\* The init process of a running container exits inside the sentry.
InitExit(id) ==
  /\ sandboxUp /\ ~kernelPaused /\ sentryCont[id] = "running"
  /\ sentryCont' = [sentryCont EXCEPT ![id] = "stopped"]
  /\ UNCHANGED <<mem, disk, lockHolder, pc, last, eff, sandboxUp, kernelPaused, sigPending,
                 oomScore, hostVars, faults, created, focus, call>>

(***************************************************************************)
(* Execute, Event and the signals: no lock is taken, the status of the     *)
(* caller's Container is checked and the request goes to the sandbox.      *)
(***************************************************************************)

\* Sandbox.Execute RPC: the sentry runs the process in a running container.
stExecuteRPC(w) ==
  IF w.err # "" THEN w
  ELSE IF w.sandboxUp /\ w.sentryCont[w.c.ID] = "running" THEN sent(w)
  ELSE [sent(w) EXCEPT !.err = "rpc-rejected"]

\* Sandbox.Event RPC: answered by any running sandbox.
stEventRPC(w) ==
  IF w.err # "" THEN w
  ELSE IF w.sandboxUp THEN sent(w)
  ELSE [sent(w) EXCEPT !.err = "rpc-rejected"]

\* c.IsSandboxRunning() in SignalContainer and SignalProcess.
stIsSandboxRunning(w) ==
  IF w.err # "" THEN w
  ELSE IF w.c.Sandbox /\ w.sandboxUp THEN w
  ELSE [w EXCEPT !.err = "sandbox"]

\* A signal reaches the init process of id: at once when the kernel runs
\* (the signal ends the container), after the resume when it is paused.
deliver(w, id) ==
  IF w.kernelPaused THEN [w EXCEPT !.sigPending[id] = TRUE]
  ELSE [w EXCEPT !.sentryCont[id] = "stopped"]

\* Lifecycle.SignalContainer in the sentry: the container must be known and
\* running.  With all it brackets the delivery in Kernel.Pause/Unpause, which
\* nest: a kernel that was paused before stays paused.
sentrySignalContainer(w, id, all) ==
  IF w.sentryCont[id] \in {"none", "created"} THEN [w EXCEPT !.err = "not-started"]
  ELSE IF w.sentryCont[id] # "running" THEN [w EXCEPT !.err = "not-running"]
  ELSE deliver(w, id)

\* Sandbox.SignalContainer RPC.
stSignalContainerRPC(w, all) ==
  IF w.err # "" THEN w ELSE sentrySignalContainer(sent(w), w.c.ID, all)

\* Sandbox.SignalProcess RPC: signals one process that is not the init
\* process; the container goes on running.
stSignalProcessRPC(w) ==
  IF w.err # "" THEN w
  ELSE IF w.sentryCont[w.c.ID] = "running" THEN sent(w)
  ELSE [sent(w) EXCEPT !.err = "rpc-rejected"]

ExecuteBodyOf(w) == stExecuteRPC(stRequireStatus(w, ExecuteStatuses))

EventBodyOf(w) == stEventRPC(stRequireStatus(w, EventStatuses))

SignalContainerBodyOf(w, all) ==
  stSignalContainerRPC(stIsSandboxRunning(stRequireStatus(w, SignalStatuses)), all)

SignalProcessBodyOf(w) ==
  stSignalProcessRPC(stIsSandboxRunning(stRequireStatus(w, SignalProcessStatuses)))

\* The return of an operation that takes no lock.
QueryFinish(p, op, w) ==
  /\ Commit(w)
  /\ last' = Result(p, op, IF w.err = "" THEN "ok" ELSE "err", w.err)
  /\ eff' = Effect(w)
  /\ UNCHANGED <<mem, lockHolder, pc, faults, created, focus, call>>

Execute(p) ==
  /\ pc[p] = "idle" /\ mem[p] # NoCont
  /\ QueryFinish(p, "Execute", ExecuteBodyOf(World(p)))

Event(p) ==
  /\ pc[p] = "idle" /\ mem[p] # NoCont
  /\ QueryFinish(p, "Event", EventBodyOf(World(p)))

SignalContainer(p, all) ==
  /\ pc[p] = "idle" /\ mem[p] # NoCont
  /\ QueryFinish(p, IF all THEN "SignalAll" ELSE "Signal",
                 SignalContainerBodyOf(World(p), all))

SignalProcess(p) ==
  /\ pc[p] = "idle" /\ mem[p] # NoCont
  /\ QueryFinish(p, "SignalProcess", SignalProcessBodyOf(World(p)))

(***************************************************************************)
(* Creation: processes race to create the containers of the sandbox.       *)
(***************************************************************************)
CreateNext ==
  \/ \E p \in Procs, id \in Ids, spec \in Uppers : NewLockForNew(p, id, spec)
  \/ \E p \in Procs : NewBody(p)
  \/ \E p \in Procs : CleanupLock(p)
  \/ \E p \in Procs : CleanupBody(p)
  \/ \E p \in Procs : Exit(p)

SpecCreate == Init /\ [][CreateNext]_vars

(***************************************************************************)
(* Lifecycle: the sandbox has been created; processes load, start, pause,  *)
(* resume, wait for, query and destroy its containers.                     *)
(***************************************************************************)

\* The world before anything was created, seen by a process about to run New.
EmptyWorld(c) ==
  [c |-> c, disk |-> [i \in Ids |-> NoRec], sandboxUp |-> FALSE,
   sentryCont |-> [i \in Ids |-> "none"], kernelPaused |-> FALSE,
   sigPending |-> [i \in Ids |-> FALSE], oomScore |-> OriginalOOMScoreAdj,
   gofer |-> [g \in Pids |-> "free"], parentCg |-> FALSE,
   compatCg |-> [i \in Ids |-> FALSE], filestore |-> [i \in Sources |-> NoFile],
   dir |-> [i \in Ids |-> c.ID = i],
   err |-> "", errs |-> FALSE, rpc |-> FALSE, unlocks |-> 0, armed |-> TRUE,
   log |-> <<>>, warn |-> FALSE, io |-> <<>>]

\* The world after a successful New of the root container.
CreatedRoot(p, spec) ==
  NewRootBody(EmptyWorld(NewContainer(p, SandboxID, spec)), "none", FALSE, 1)

\* The world after a successful New of the sub-container in that sandbox.
CreatedSub(p, wr, spec) ==
  NewSubBody([wr EXCEPT !.c = NewContainer(p, "s", spec)], "none")

\* p1 has just created the container it holds: the root container, or the
\* sub-container of a sandbox whose root was created by a process now gone.
LifeInit ==
  /\ bundle = [i \in Ids |-> NoBundle]
  /\ \E spec \in Uppers, target \in Ids :
    LET wr == CreatedRoot("p1", IF isRoot(target) THEN spec ELSE "none")
        w  == IF isRoot(target) THEN wr ELSE CreatedSub("p1", wr, spec)
    IN /\ mem = [p \in Procs |-> IF p = "p1" THEN [w.c EXCEPT !.parentCgroup = FALSE]
                                 ELSE NoCont]
       /\ disk = w.disk
       /\ lockHolder = [i \in Ids |-> NoProc]
       /\ pc = [p \in Procs |-> "idle"]
       /\ last = Result("p1", "New", "ok", "")
       /\ sandboxUp = w.sandboxUp
       /\ sentryCont = w.sentryCont
       /\ kernelPaused = w.kernelPaused
       /\ sigPending = w.sigPending
       /\ oomScore = w.oomScore
       /\ eff = Effect(stUnlockOrDie(w))
       /\ gofer = w.gofer
       /\ parentCg = w.parentCg
       /\ compatCg = w.compatCg
       /\ filestore = w.filestore
       /\ dir = [i \in Ids |-> w.disk[i] # NoRec]
       /\ faults = 0
       /\ created = [i \in Ids |-> 0]
       /\ focus = target
       /\ call = NoCall

LifeNext ==
  \/ \E p \in Procs, id \in Ids : Load(p, id)
  \/ \E p \in Procs : Exit(p)
  \/ \E p \in Procs, op \in LockedOps : Lock(p, op)
  \/ \E p \in Procs : StartBody(p)
  \/ \E p \in Procs : PauseBody(p)
  \/ \E p \in Procs : ResumeBody(p)
  \/ \E p \in Procs : DestroyBody(p)
  \/ \E p \in Procs : Wait(p)
  \/ \E p \in Procs : CheckStopped(p)
  \/ \E id \in Ids : InitExit(id)

SpecLife == LifeInit /\ [][LifeNext]_vars

(***************************************************************************)
(* Queries and signals: the sandbox holds the root container, held by p1,  *)
(* and a sub-container, held by p2; both were created and are started,     *)
(* paused, resumed, queried and signalled.                                 *)
(***************************************************************************)
QueryInit ==
  LET wr == CreatedRoot("p1", "none")
      ws == CreatedSub("p2", wr, "none")
  IN /\ bundle = [i \in Ids |-> NoBundle]
     /\ mem = [p \in Procs |-> [(IF p = "p1" THEN wr.c ELSE ws.c)
                                  EXCEPT !.parentCgroup = FALSE]]
     /\ disk = ws.disk
     /\ lockHolder = [i \in Ids |-> NoProc]
     /\ pc = [p \in Procs |-> "idle"]
     /\ last = Result("p2", "New", "ok", "")
     /\ eff = Effect(stUnlockOrDie(ws))
     /\ sandboxUp = ws.sandboxUp
     /\ sentryCont = ws.sentryCont
     /\ kernelPaused = ws.kernelPaused
     /\ sigPending = ws.sigPending
     /\ oomScore = ws.oomScore
     /\ gofer = ws.gofer
     /\ parentCg = ws.parentCg
     /\ compatCg = ws.compatCg
     /\ filestore = ws.filestore
     /\ dir = [i \in Ids |-> ws.disk[i] # NoRec]
     /\ faults = 0
     /\ created = [i \in Ids |-> 0]
     /\ focus = SandboxID
     /\ call = NoCall

QueryLockedOps == {"start", "pause", "resume"}

QueryNext ==
  \/ \E p \in Procs, op \in QueryLockedOps : Lock(p, op)
  \/ \E p \in Procs : StartBody(p)
  \/ \E p \in Procs : PauseBody(p)
  \/ \E p \in Procs : ResumeBody(p)
  \/ \E p \in Procs : Wait(p)
  \/ \E p \in Procs : CheckStopped(p)
  \/ \E id \in Ids : InitExit(id)
  \/ \E p \in Procs : Execute(p)
  \/ \E p \in Procs : Event(p)
  \/ \E p \in Procs, all \in BOOLEAN : SignalContainer(p, all)
  \/ \E p \in Procs : SignalProcess(p)

SpecQuery == QueryInit /\ [][QueryNext]_vars

(***************************************************************************)
(* Crashes: the process running New dies after the sandbox (or the         *)
(* sub-container in it) exists and before the record is written; later the *)
(* id is deleted with --force.                                             *)
(***************************************************************************)

\* The process dies inside New at saveLocked: every step before it has taken
\* effect, nothing is written, no deferred call runs, the kernel drops the
\* lock of the dead process.
Crash(p) ==
  /\ pc[p] = "new_locked"
  /\ CanFail
  /\ LET id == mem[p].ID IN
     \E annot \in BOOLEAN :
       /\ isRoot(id) => FreePids # {}
       /\ ~isRoot(id) => ~annot /\ lockHolder[SandboxID] = NoProc
       /\ LET w == IF isRoot(id)
                   THEN NewRootBody(World(p), "save", annot, FreshPid)
                   ELSE NewSubBody(World(p), "save")
          IN /\ w.err = "save"
             /\ Commit(w)
             /\ faults' = faults + 1
             /\ lockHolder' = [lockHolder EXCEPT ![id] = NoProc]
             /\ mem' = [mem EXCEPT ![p] = NoCont]
             /\ pc' = [pc EXCEPT ![p] = "idle"]
             /\ last' = Result(p, "New", "crash", id)
             /\ eff' = NoEffect
             /\ UNCHANGED <<created, focus, call>>

\* list: one entry for every record that loads.
InList(id) == disk[id] # NoRec

\* delete --force of an id that has no record: the load fails with NotFound,
\* which --force turns into success; what is left of the directory goes.
ForceDelete(p, id) ==
  /\ pc[p] = "idle" /\ mem[p] = NoCont
  /\ lockHolder[id] = NoProc
  /\ disk[id] = NoRec
  /\ dir' = [dir EXCEPT ![id] = FALSE]
  /\ last' = Result(p, "Delete", "ok", id)
  /\ eff' = NoEffect
  /\ UNCHANGED <<mem, disk, lockHolder, pc, sentryVars, gofer, parentCg, compatCg,
                 filestore, bundle, faults, created, focus, call>>

CrashNext ==
  \/ \E p \in Procs, id \in Ids, spec \in Uppers : NewLockForNew(p, id, spec)
  \/ \E p \in Procs : NewBody(p)
  \/ \E p \in Procs : CleanupLock(p)
  \/ \E p \in Procs : CleanupBody(p)
  \/ \E p \in Procs : Exit(p)
  \/ \E p \in Procs : Crash(p)
  \/ \E p \in Procs, id \in Ids : ForceDelete(p, id)

SpecCrash == Init /\ [][CrashNext]_vars

(***************************************************************************)
(* OOM scores: the root container, held by p1, and a sub-container, held   *)
(* by p2, were created from bundles that may ask for an oom_score_adj; the *)
(* root may be a pause container.  They are started and destroyed, one     *)
(* operation at a time.                                                    *)
(***************************************************************************)

\* What the bundle of id can ask for: only the root can be of type sandbox.
Bundles(id) ==
  [OOMScoreAdj : Scores \cup {NoScore},
   Type : IF isRoot(id) THEN {ContainerTypeSandbox, "unspecified"} ELSE {"container"},
   Mounts : {<<>>}, Hint : {"none"},
   RootType : {"bind"}, HintType : {"bind"}, Device : {FALSE}]

OOMInit ==
  LET wr == CreatedRoot("p1", "none")
      ws == CreatedSub("p2", wr, "none")
  IN /\ bundle \in {b \in [Ids -> UNION {Bundles(i) : i \in Ids}] :
                       \A i \in Ids : b[i] \in Bundles(i)}
     /\ mem = [p \in Procs |-> [(IF p = "p1" THEN wr.c ELSE ws.c)
                                  EXCEPT !.parentCgroup = FALSE]]
     /\ disk = ws.disk
     /\ lockHolder = [i \in Ids |-> NoProc]
     /\ pc = [p \in Procs |-> "idle"]
     /\ last = Result("p2", "New", "ok", "")
     /\ eff = Effect(stUnlockOrDie(ws))
     /\ sandboxUp = ws.sandboxUp
     /\ sentryCont = ws.sentryCont
     /\ kernelPaused = ws.kernelPaused
     /\ sigPending = ws.sigPending
     /\ oomScore = ws.oomScore
     /\ gofer = ws.gofer
     /\ parentCg = ws.parentCg
     /\ compatCg = ws.compatCg
     /\ filestore = ws.filestore
     /\ dir = [i \in Ids |-> ws.disk[i] # NoRec]
     /\ faults = 0
     /\ created = [i \in Ids |-> 0]
     /\ focus = SandboxID
     /\ call = NoCall

OOMLockedOps == {"start", "destroy"}

OOMNext ==
  \/ \E p \in Procs, op \in OOMLockedOps : Lock(p, op)
  \/ \E p \in Procs : StartBody(p)
  \/ \E p \in Procs : DestroyBody(p)
  \/ \E id \in Ids : InitExit(id)

SpecOOM == OOMInit /\ [][OOMNext]_vars

(***************************************************************************)
(* Mounts: the root container, held by p1, and a sub-container, held by    *)
(* p2, were created from bundles whose specs may bind-mount the same       *)
(* directory; the pod annotations may hint that directory as sandbox-local *)
(* or shared.  The containers are started and destroyed.                   *)
(***************************************************************************)

\* A tmpfs mount, which the gofer does not serve.
TmpMount == [src |-> "tmp", gofer |-> FALSE, upper |-> "none"]

\* A bind mount of the directory, served by the gofer.
VolMount(u) == [src |-> "vol", gofer |-> TRUE, upper |-> u]

\* The spec.Mounts a bundle can hold.
MountLists == {<<>>} \cup {<<TmpMount, VolMount(u)>> : u \in {"none", "self"}}

\* The mount hints the pod annotations can give for the directory.
Hints == {"none", "local", "shared"}

MountBundles(id) ==
  [OOMScoreAdj : {NoScore}, Type : {"unspecified"}, Mounts : MountLists,
   Hint : IF isRoot(id) THEN Hints ELSE {"none"},
   RootType : {"bind"}, HintType : {"bind"}, Device : {FALSE}]

MountInit ==
  /\ bundle \in {b \in [Ids -> UNION {MountBundles(i) : i \in Ids}] :
                    \A i \in Ids : b[i] \in MountBundles(i)}
  /\ \E rspec \in {"none", "self"}, sspec \in {"none", "self"} :
     \E wr \in {CreatedRoot("p1", rspec)} :
     \E ws \in {CreatedSub("p2", wr, sspec)} :
     /\ mem = [p \in Procs |-> [(IF p = "p1" THEN wr.c ELSE ws.c)
                                  EXCEPT !.parentCgroup = FALSE]]
     /\ disk = ws.disk
     /\ lockHolder = [i \in Ids |-> NoProc]
     /\ pc = [p \in Procs |-> "idle"]
     /\ last = Result("p2", "New", "ok", "")
     /\ eff = Effect(stUnlockOrDie(ws))
     /\ sandboxUp = ws.sandboxUp
     /\ sentryCont = ws.sentryCont
     /\ kernelPaused = ws.kernelPaused
     /\ sigPending = ws.sigPending
     /\ oomScore = ws.oomScore
     /\ gofer = ws.gofer
     /\ parentCg = ws.parentCg
     /\ compatCg = ws.compatCg
     /\ filestore = ws.filestore
     /\ dir = [i \in Ids |-> ws.disk[i] # NoRec]
     /\ faults = 0
     /\ created = [i \in Ids |-> 0]
     /\ focus = SandboxID
     /\ call = NoCall

MountOps == {"start", "destroy"}

MountNext ==
  \/ \E p \in Procs, op \in MountOps : Lock(p, op)
  \/ \E p \in Procs : StartBody(p)
  \/ \E p \in Procs : DestroyBody(p)

SpecMounts == MountInit /\ [][MountNext]_vars

(***************************************************************************)
(* Gofers: p1 creates the root container and p2 a sub-container, from      *)
(* bundles whose rootfs may be an EROFS image, which may ask for devices,  *)
(* and whose mounts may be hinted as sandbox-local tmpfs; the containers   *)
(* are started.                                                            *)
(***************************************************************************)

\* The hint of the pod annotations for the directory: none, or sandbox-local
\* of type bind or tmpfs.
GoferHints == {<<"none", "bind">>, <<"local", "bind">>, <<"local", "tmpfs">>}

GoferBundles(id) ==
  {[OOMScoreAdj |-> NoScore, Type |-> "unspecified", Mounts |-> m, Hint |-> h[1],
    RootType |-> t, HintType |-> h[2], Device |-> d] :
     m \in {<<>>, <<TmpMount, VolMount("none")>>},
     h \in IF isRoot(id) THEN GoferHints ELSE {<<"none", "bind">>},
     t \in {"bind", "erofs"}, d \in BOOLEAN}

GoferInit ==
  /\ bundle \in {b \in [Ids -> UNION {GoferBundles(i) : i \in Ids}] :
                    \A i \in Ids : b[i] \in GoferBundles(i)}
  /\ oomScore = OriginalOOMScoreAdj
  /\ mem = [p \in Procs |-> NoCont]
  /\ disk = [i \in Ids |-> NoRec]
  /\ lockHolder = [i \in Ids |-> NoProc]
  /\ pc = [p \in Procs |-> "idle"]
  /\ last = NoResult
  /\ sandboxUp = FALSE
  /\ sentryCont = [i \in Ids |-> "none"]
  /\ kernelPaused = FALSE
  /\ sigPending = [i \in Ids |-> FALSE]
  /\ eff = NoEffect
  /\ gofer = [g \in Pids |-> "free"]
  /\ parentCg = FALSE
  /\ compatCg = [i \in Ids |-> FALSE]
  /\ filestore = [i \in Sources |-> NoFile]
  /\ dir = [i \in Ids |-> FALSE]
  /\ faults = 0
  /\ created = [i \in Ids |-> 0]
  /\ focus = SandboxID
  /\ call = NoCall

GoferNext ==
  \/ NewLockForNew("p1", SandboxID, "none")
  \/ NewLockForNew("p2", "s", "none")
  \/ \E p \in Procs : NewBody(p)
  \/ \E p \in Procs : CleanupLock(p)
  \/ \E p \in Procs : CleanupBody(p)
  \/ \E p \in Procs : Lock(p, "start")
  \/ \E p \in Procs : StartBody(p)

SpecGofer == GoferInit /\ [][GoferNext]_vars

(***************************************************************************)
(* The wait command: the exit status it reports for a wait status.  A wait *)
(* status is the 16-bit word of wait(2): the low 7 bits are 0 for a        *)
(* process that exited (the exit code is in bits 8-15), 0x7f for a stopped *)
(* process, and otherwise the signal that killed it (bit 7: core dumped).  *)
(***************************************************************************)

\* The largest exit code (bits 8-15 of a wait status) looked at.
MaxExitCode == 31

\* The wait statuses looked at: every low byte, under every such exit code.
WaitStatuses == {code * 256 + low : code \in 0..MaxExitCode, low \in 0..255}

\* unix.WaitStatus.Exited: w&mask == exited.
Exited(w) == (w % 128) = 0

\* unix.WaitStatus.Signaled: w&mask != stopped && w&mask != exited.
Signaled(w) == (w % 128) # 127 /\ (w % 128) # 0

\* unix.WaitStatus.Signal: w&mask, -1 unless Signaled.
Signal(w) == IF Signaled(w) THEN w % 128 ELSE -1

\* unix.WaitStatus.ExitStatus: (w>>shift)&0xFF, -1 unless Exited.
ExitStatus(w) == IF Exited(w) THEN (w \div 256) % 256 ELSE -1

\* Mutant of exitStatus: the signal number is not offset by 128.
exitStatus_noOffset(status) ==
  IF Signaled(status) THEN Signal(status) ELSE ExitStatus(status)

\* exitStatus of the wait command.
exitStatus(status) ==
  IF Signaled(status) THEN 128 + Signal(status) ELSE ExitStatus(status)

\* Wait.Execute, once the wait has returned the status: the result it prints.
WaitExecute(status) ==
  /\ call = NoCall
  /\ call' = [fn |-> "exitStatus", arg |-> status, ret |-> exitStatus(status)]
  /\ UNCHANGED <<mem, disk, lockHolder, pc, last, eff, sentryVars, hostVars, faults,
                 created, focus>>

WaitNext == \E status \in WaitStatuses : WaitExecute(status)

SpecWait == Init /\ [][WaitNext]_vars

\* ---------------------------------------------------------------------
\* Flag overrides (runsc/config/flags.go).

\* Flags of the runtime that the model tells apart, by the name of their
\* command-line flag, and a name no flag has.
FlagNames == {"debug", "oci-seccomp", "overlay2", "network"}
NoSuchFlag == "no-such-flag"

\* Values an annotation may carry.
FlagValues ==
  {"true", "false", "none", "root:memory", "all:self", "all:dir=/tmp", "host",
   "bogus"}

\* overrideAllowlist: the flags an annotation may change without
\* --allow-flag-override.
overrideAllowlist ==
  {"debug", "debug-to-user-log", "strace", "strace-syscalls", "strace-log-size",
   "host-uds", "net-disconnect-ok", "reproduce-nftables", "overlay2",
   "oci-seccomp"}

\* strconv.ParseBool, on the values of the model.
ParseBoolOK(value) == value \in {"true", "false"}

\* Overlay2.Set: the medium of an overlay2 value, "invalid" when the value
\* does not parse.
overlayMedium(value) ==
  CASE value = "none" -> "NoOverlay"
    [] value = "root:memory" -> "MemoryOverlay"
    [] value = "all:self" -> "SelfOverlay"
    [] value = "all:dir=/tmp" -> "AnonOverlay"
    [] OTHER -> "invalid"

\* fl.Value.Set(value) of the flag called name succeeds.
flagValueSet(name, value) ==
  CASE name \in {"debug", "oci-seccomp"} -> ParseBoolOK(value)
    [] name = "overlay2" -> overlayMedium(value) # "invalid"
    [] name = "network" -> value \in {"sandbox", "host", "none"}
    [] OTHER -> FALSE

\* checkOverlay2: "" when the value is accepted, the error otherwise.
checkOverlay2(name, value) ==
  IF overlayMedium(value) = "invalid" THEN "invalid overlay2 annotation"
  ELSE IF overlayMedium(value) \in {"NoOverlay", "MemoryOverlay", "SelfOverlay"}
       THEN ""
       ELSE "medium requires allow-flag-override"

\* checkOciSeccomp: seccomp can be enabled but not disabled.
checkOciSeccomp(name, value) ==
  IF ~ParseBoolOK(value) THEN "parse"
  ELSE IF value # "true" THEN "disabling requires allow-flag-override"
  ELSE ""

\* The check of an allow-listed flag, "" for a flag that has none.
allowCheck(name, value) ==
  CASE name = "overlay2" -> checkOverlay2(name, value)
    [] name = "oci-seccomp" -> checkOciSeccomp(name, value)
    [] OTHER -> ""

\* The same with the global flag required as well as the allow-list.
isOverrideAllowed_both(allow, name, value) ==
  IF allow /\ name \in overrideAllowlist
  THEN allowCheck(name, value)
  ELSE "flag override disabled"

\* Config.isOverrideAllowed: "" when the override is allowed.
isOverrideAllowed(allow, name, value) ==
  IF allow THEN ""
  ELSE IF name \in overrideAllowlist
       THEN allowCheck(name, value)
       ELSE "flag override disabled"

\* Config.Override:  the error it returns ("" for nil) and whether it wrote
\* the field of the flag. valid is the outcome of the validation of the
\* config that follows the write.
Override(allow, name, value, force, valid) ==
  IF name \notin FlagNames
  THEN [err |-> "flag not found", applied |-> FALSE]
  ELSE IF ~force /\ isOverrideAllowed(allow, name, value) # ""
  THEN [err |-> isOverrideAllowed(allow, name, value), applied |-> FALSE]
  ELSE IF ~flagValueSet(name, value)
  THEN [err |-> "error setting flag", applied |-> FALSE]
  ELSE [err |-> IF valid THEN "" ELSE "validate", applied |-> TRUE]

\* One call of Config.Override on a configuration whose AllowFlagOverride
\* is allow.
OverrideCall(allow, name, value, force, valid) ==
  /\ call = NoCall
  /\ call' = [fn |-> "Override",
              arg |-> [allow |-> allow, name |-> name, value |-> value,
                       force |-> force],
              ret |-> Override(allow, name, value, force, valid)]
  /\ UNCHANGED <<mem, disk, lockHolder, pc, last, eff, sentryVars, hostVars, faults,
                 created, focus>>

OverrideNext ==
  \E allow \in BOOLEAN, name \in FlagNames \cup {NoSuchFlag},
     value \in FlagValues, force \in BOOLEAN, valid \in BOOLEAN :
    OverrideCall(allow, name, value, force, valid)

SpecOverride == Init /\ [][OverrideNext]_vars

(***************************************************************************)
(* OOM score, step by step: Start releases the container lock, then reads  *)
(* the records of the sandbox, then writes the score of the sentry; other  *)
(* processes run between these steps.                                      *)
(***************************************************************************)

\* The score each process read and has yet to write; NoScore: none.
Pending == IF call.fn = "-" THEN [q \in Procs |-> NoScore] ELSE call.ret

\* startImpl up to unlock.Clean(): the body of Start and the release of the
\* lock; on success the OOM adjustment follows.
StartUnlock(p) ==
  /\ pc[p] = "start"
  /\ (~isRoot(mem[p].ID) /\ requireStatus(mem[p], StartStatuses))
       => /\ FreePids # {}
          /\ Len(mem[p].Confs) <= (MaxConfs - 1) * Len(plannedConfs(mem[p]))
  /\ LET w == stStartUnlock(StartBodyOf(World(p), "none",
                                        IF FreePids # {} THEN FreshPid ELSE 0))
     IN /\ w.err # "panic"
        /\ Commit(w)
        /\ Released(p, mem[p].ID, w)
        /\ eff' = Effect(w)
        /\ mem' = [mem EXCEPT ![p] = w.c]
        /\ pc' = [pc EXCEPT ![p] = IF w.err = "" THEN "adjust" ELSE "idle"]
        /\ last' = IF w.err = "" THEN last ELSE Result(p, "Start", "err", w.err)
  /\ UNCHANGED <<faults, created, focus, call>>

\* adjustSandboxOOMScoreAdj(destroy = false) up to the choice of the score:
\* LoadSandbox and the lowest score of the containers that count.
AdjustLoad(p) ==
  /\ pc[p] = "adjust"
  /\ LET w == World(p)
         score == IF LoadSandbox(w) # {} /\ scored(w) # {} THEN lowScore(w)
                  ELSE NoScore
     IN call' = [fn |-> "adjustSandboxOOMScoreAdj", arg |-> "-",
                 ret |-> [Pending EXCEPT ![p] = score]]
  /\ pc' = [pc EXCEPT ![p] = "adjust_set"]
  /\ UNCHANGED <<mem, disk, lockHolder, last, eff, sentryVars, hostVars, faults,
                 created, focus>>

\* The end of adjustSandboxOOMScoreAdj: setOOMScoreAdj with the score that
\* was chosen, if any; Start returns.
AdjustSet(p) ==
  /\ pc[p] = "adjust_set"
  /\ oomScore' = IF Pending[p] # NoScore /\ sandboxUp THEN Pending[p] ELSE oomScore
  /\ call' = [call EXCEPT !.ret = [Pending EXCEPT ![p] = NoScore]]
  /\ pc' = [pc EXCEPT ![p] = "idle"]
  /\ last' = Result(p, "Start", "ok", "")
  /\ UNCHANGED <<mem, disk, lockHolder, eff, sandboxUp, sentryCont, kernelPaused,
                 sigPending, hostVars, faults, created, focus>>

RaceNext ==
  \/ \E p \in Procs, op \in OOMLockedOps : Lock(p, op)
  \/ \E p \in Procs : StartUnlock(p)
  \/ \E p \in Procs : AdjustLoad(p)
  \/ \E p \in Procs : AdjustSet(p)
  \/ \E p \in Procs : DestroyBody(p)

SpecOOMRace == OOMInit /\ [][RaceNext]_vars

(***************************************************************************)
(* Destroy, step by step: the processes that hold the root container, the  *)
(* one that spawned its gofer and one that loaded it, destroy it; a killed *)
(* gofer takes time to die, wait4 blocks until it has, and the poll of a   *)
(* gofer of another process is tried a bounded number of times.            *)
(***************************************************************************)

\* The polls of kill(pid, 0) that fit into the 5 seconds of waitForStopped.
MaxPolls == 2

\* What a Destroy under way remembers between its steps: the polls made, sb
\* (c.Sandbox as Destroy found it) and whether stop() has failed.
NoCtx == [polls |-> 0, sb |-> FALSE, failed |-> FALSE]
Ctx == IF call.fn = "-" THEN [q \in Procs |-> NoCtx] ELSE call.ret

\* unix.Kill(pid, SIGKILL): the gofer dies some time later.
sigkill(g) == IF g = "alive" THEN "dying" ELSE g

\* The process that spawned gofer g and has not reaped it, if it is there.
HasParent(g) ==
  \E p \in Procs : mem[p] # NoCont /\ mem[p].goferIsChild /\ mem[p].GoferPid = g

\* A killed gofer exits: it is a zombie until its parent reaps it, and init
\* reaps it at once when the parent is gone.
GoferDies(g) ==
  /\ gofer[g] = "dying"
  /\ gofer' = [gofer EXCEPT ![g] = IF HasParent(g) THEN "zombie" ELSE "gone"]
  /\ UNCHANGED <<mem, disk, lockHolder, pc, last, eff, sentryVars, parentCg, compatCg,
                 filestore, dir, bundle, faults, created, focus, call>>

\* Destroy up to waitForStopped: DestroyContainer and SIGKILL to the gofer.
DestroyStop(p) ==
  /\ pc[p] = "destroy"
  /\ \E f \in {"none"} \cup (IF CanFail /\ mem[p].Sandbox THEN {"destroy-rpc"} ELSE {}) :
       \E w1 \in {stopSandbox(World(p), f)} :
       \E w \in {IF w1.err # "" \/ w1.c.GoferPid = 0 THEN w1
                 ELSE [w1 EXCEPT !.gofer[w1.c.GoferPid] = sigkill(@)]} :
          /\ Commit(w)
          /\ mem' = [mem EXCEPT ![p] = w.c]
          /\ faults' = IF f = "none" THEN faults ELSE faults + 1
          /\ call' = [fn |-> "Destroy", arg |-> "-",
                      ret |-> [Ctx EXCEPT ![p] = [polls |-> 0, sb |-> mem[p].Sandbox,
                                                  failed |-> w.err # ""]]]
          /\ pc' = [pc EXCEPT ![p] = IF w.err = "" /\ w.c.GoferPid # 0
                                     THEN "destroy_wait" ELSE "destroy_rest"]
  /\ UNCHANGED <<lockHolder, last, eff, created, focus>>

\* waitForStopped, the gofer is a child: wait4 returns once the gofer has
\* died and reaps it; it fails when there is no such child.
WaitChild(p) ==
  /\ pc[p] = "destroy_wait" /\ mem[p].goferIsChild
  /\ gofer[mem[p].GoferPid] # "dying" /\ gofer[mem[p].GoferPid] # "alive"
  /\ IF gofer[mem[p].GoferPid] = "zombie"
     THEN /\ gofer' = [gofer EXCEPT ![mem[p].GoferPid] = "gone"]
          /\ mem' = [mem EXCEPT ![p].GoferPid = 0]
          /\ call' = call
     ELSE /\ call' = [call EXCEPT !.ret = [Ctx EXCEPT ![p].failed = TRUE]]
          /\ UNCHANGED <<gofer, mem>>
  /\ pc' = [pc EXCEPT ![p] = "destroy_rest"]
  /\ UNCHANGED <<disk, lockHolder, last, eff, sentryVars, parentCg, compatCg,
                 filestore, dir, bundle, faults, created, focus>>

\* The poll that never gives up.
givesUp_never(polls) == FALSE

\* waitForStopped, the gofer is not a child: the retries end with the 5
\* seconds.
givesUp(polls) == polls >= MaxPolls

\* waitForStopped, the gofer is not a child: one kill(pid, 0); the pid is
\* forgotten when it fails, and the poll is made again until time is up.
PollGofer(p) ==
  /\ pc[p] = "destroy_wait" /\ ~mem[p].goferIsChild
  /\ IF gofer[mem[p].GoferPid] \in {"gone", "free"}
     THEN /\ mem' = [mem EXCEPT ![p].GoferPid = 0]
          /\ pc' = [pc EXCEPT ![p] = "destroy_rest"]
          /\ call' = call
     ELSE IF givesUp(Ctx[p].polls)
     THEN /\ call' = [call EXCEPT !.ret = [Ctx EXCEPT ![p].failed = TRUE]]
          /\ pc' = [pc EXCEPT ![p] = "destroy_rest"]
          /\ mem' = mem
     ELSE /\ call' = [call EXCEPT !.ret =
                        [Ctx EXCEPT ![p].polls = Min(@ + 1, MaxPolls)]]
          /\ UNCHANGED <<pc, mem>>
  /\ UNCHANGED <<disk, lockHolder, last, eff, sentryVars, hostVars, faults, created,
                 focus>>

\* Destroy after waitForStopped: the cgroups unless stop() has failed, the
\* record, the filestores, the OOM score, Stopped, the poststop hooks and
\* the deferred unlock.
DestroyRest(p) ==
  /\ pc[p] = "destroy_rest"
  /\ \E w1 \in {IF Ctx[p].failed THEN [World(p) EXCEPT !.errs = TRUE]
                 ELSE collect(stopUninstall(World(p), "none"))} :
     \E w2 \in {collect(saverDestroy(w1, "none"))} :
     \E w3 \in {collect(removeSelfFilestores(w2, Ctx[p].sb))} :
     \E w4 \in {stDestroyAdjust(w3, Ctx[p].sb)} :
     \E w5 \in {executeHooksBestEffort(
                   [w4 EXCEPT !.c = changeStatus(w4.c, "Stopped")], "none", "poststop")} :
     \E w \in {[w5 EXCEPT !.c.parentCgroup = FALSE]} :
     \E u \in {stUnlockOrDie(w)} :
        /\ Commit(w)
        /\ Released(p, mem[p].ID, u)
        /\ eff' = Effect(u)
        /\ mem' = [mem EXCEPT ![p] = w.c]
        /\ last' = Result(p, "Destroy", IF w.errs THEN "err" ELSE "ok", "")
  /\ pc' = [pc EXCEPT ![p] = "idle"]
  /\ call' = [call EXCEPT !.ret = [Ctx EXCEPT ![p] = NoCtx]]
  /\ UNCHANGED <<faults, created, focus>>

\* The root container was created by p1, whose child the gofer is; p2 has
\* loaded it.
ReapInit ==
  /\ bundle = [i \in Ids |-> NoBundle]
  /\ \E annot \in BOOLEAN, spec \in Uppers :
     \E wr \in {NewRootBody(EmptyWorld(NewContainer("p1", SandboxID, spec)),
                            "none", annot, 1)} :
     /\ mem = [p \in Procs |-> IF p = "p1" THEN [wr.c EXCEPT !.parentCgroup = FALSE]
                               ELSE Loaded(wr.disk[SandboxID])]
     /\ disk = wr.disk
     /\ lockHolder = [i \in Ids |-> NoProc]
     /\ pc = [p \in Procs |-> "idle"]
     /\ last = Result("p1", "New", "ok", "")
     /\ eff = Effect(stUnlockOrDie(wr))
     /\ sandboxUp = wr.sandboxUp
     /\ sentryCont = wr.sentryCont
     /\ kernelPaused = wr.kernelPaused
     /\ sigPending = wr.sigPending
     /\ oomScore = wr.oomScore
     /\ gofer = wr.gofer
     /\ parentCg = wr.parentCg
     /\ compatCg = wr.compatCg
     /\ filestore = wr.filestore
     /\ dir = [i \in Ids |-> wr.disk[i] # NoRec]
     /\ faults = 0
     /\ created = [i \in Ids |-> 0]
     /\ focus = SandboxID
     /\ call = NoCall

ReapNext ==
  \/ \E p \in Procs : Lock(p, "destroy")
  \/ \E p \in Procs : DestroyStop(p)
  \/ \E g \in Pids : GoferDies(g)
  \/ \E p \in Procs : WaitChild(p)
  \/ \E p \in Procs : PollGofer(p)
  \/ \E p \in Procs : DestroyRest(p)
  \/ \E p \in Procs : Exit(p)

\* A Destroy that can make its next step makes it, and a killed gofer dies;
\* nothing makes a process call Destroy or exit.
ReapFairness ==
  /\ \A p \in Procs : /\ WF_vars(DestroyStop(p))
                      /\ WF_vars(WaitChild(p))
                      /\ WF_vars(PollGofer(p))
                      /\ WF_vars(DestroyRest(p))
  /\ \A g \in Pids : WF_vars(GoferDies(g))

SpecReap == ReapInit /\ [][ReapNext]_vars /\ ReapFairness

(***************************************************************************)
(* Inside the sentry: the Lifecycle RPC handlers, served by concurrent     *)
(* threads (the members of Procs), for the container id focus.  Here       *)
(* sentryCont[id] is the entry of l.containerMap: its state and the state  *)
(* of its init thread group tg.  The steps of a handler are the stretches  *)
(* it runs with l.mu held or between two acquisitions of it.               *)
(***************************************************************************)

\* No entry in l.containerMap.
NoEntry == [state |-> "none", tg |-> "none"]

\* updateContainerState: the entry afterwards and how the call ended.
updateContainerState(c, newState) ==
  IF c = NoEntry THEN [c |-> c, r |-> "not-started"]
  ELSE IF newState = "created" THEN [c |-> c, r |-> "panic"]
  ELSE IF newState = "running" /\ c.state # "created" THEN [c |-> c, r |-> "panic"]
  ELSE [c |-> [c EXCEPT !.state = newState], r |-> "ok"]

\* getInitContainerProcess: the container must be in the map.
getInitContainerProcess(p, op, next) ==
  /\ pc[p] = "idle" /\ sandboxUp
  /\ IF sentryCont[focus] = NoEntry
     THEN /\ last' = Result(p, op, "err", "not-started")
          /\ pc' = pc
     ELSE /\ pc' = [pc EXCEPT ![p] = next]
          /\ last' = last
  /\ UNCHANGED <<mem, disk, lockHolder, eff, sentryVars, hostVars, faults, created,
                 focus, call>>

\* StartContainer up to l.mu.Unlock: the process is created and the
\* container enters the map as created.  A container is started once.
StartInsert(p) ==
  /\ pc[p] = "idle" /\ sandboxUp /\ sentryCont[focus] = NoEntry
  /\ sentryCont' = [sentryCont EXCEPT ![focus] = [state |-> "created", tg |-> "new"]]
  /\ pc' = [pc EXCEPT ![p] = "start_inserted"]
  /\ UNCHANGED <<mem, disk, lockHolder, last, eff, sandboxUp, kernelPaused, sigPending,
                 oomScore, hostVars, faults, created, focus, call>>

\* StartContainer: l.Kernel.StartProcess(tg).
StartProcess(p) ==
  /\ pc[p] = "start_inserted" /\ sandboxUp
  /\ sentryCont' = [sentryCont EXCEPT ![focus].tg = "live"]
  /\ pc' = [pc EXCEPT ![p] = "start_started"]
  /\ UNCHANGED <<mem, disk, lockHolder, last, eff, sandboxUp, kernelPaused, sigPending,
                 oomScore, hostVars, faults, created, focus, call>>

\* StartContainer: l.updateContainerState(id, stateRunning).  A panic ends
\* the sentry.
StartUpdate(p) ==
  /\ pc[p] = "start_started" /\ sandboxUp
  /\ \E u \in {updateContainerState(sentryCont[focus], "running")} :
       /\ sentryCont' = [sentryCont EXCEPT ![focus] = u.c]
       /\ sandboxUp' = (u.r # "panic")
       /\ last' = Result(p, "StartContainer", u.r, "")
  /\ pc' = [pc EXCEPT ![p] = "idle"]
  /\ UNCHANGED <<mem, disk, lockHolder, eff, kernelPaused, sigPending, oomScore,
                 hostVars, faults, created, focus, call>>

\* The init process of the container exits.
InitExits ==
  /\ sandboxUp /\ sentryCont[focus].tg = "live"
  /\ sentryCont' = [sentryCont EXCEPT ![focus].tg = "exited"]
  /\ UNCHANGED <<mem, disk, lockHolder, pc, last, eff, sandboxUp, kernelPaused,
                 sigPending, oomScore, hostVars, faults, created, focus, call>>

\* WaitContainer: getInitContainerProcess.
WaitGet(p) == getInitContainerProcess(p, "WaitContainer", "wait_blocked")

\* WaitContainer: tg.WaitExited() has returned; the container is recorded
\* as stopped.
WaitExited(p) ==
  /\ pc[p] = "wait_blocked" /\ sandboxUp /\ sentryCont[focus].tg = "exited"
  /\ \E u \in {updateContainerState(sentryCont[focus], "stopped")} :
       /\ sentryCont' = [sentryCont EXCEPT ![focus] = u.c]
       /\ last' = Result(p, "WaitContainer", IF u.r = "ok" THEN "ok" ELSE "err", "")
  /\ pc' = [pc EXCEPT ![p] = "idle"]
  /\ UNCHANGED <<mem, disk, lockHolder, eff, sandboxUp, kernelPaused, sigPending,
                 oomScore, hostVars, faults, created, focus, call>>

\* IsContainerRunning, all of it under l.mu: a running container whose
\* thread group has no task left is recorded as stopped.
IsContainerRunning(p) ==
  /\ pc[p] = "idle" /\ sandboxUp
  /\ IF sentryCont[focus].state # "running"
     THEN /\ last' = Result(p, "IsContainerRunning", "ok", "false")
          /\ sentryCont' = sentryCont
     ELSE IF sentryCont[focus].tg = "exited"
     THEN /\ last' = Result(p, "IsContainerRunning", "ok", "false")
          /\ sentryCont' = [sentryCont EXCEPT ![focus].state = "stopped"]
     ELSE /\ last' = Result(p, "IsContainerRunning", "ok", "true")
          /\ sentryCont' = sentryCont
  /\ UNCHANGED <<mem, disk, lockHolder, pc, eff, sandboxUp, kernelPaused, sigPending,
                 oomScore, hostVars, faults, created, focus, call>>

\* SignalContainer: getInitContainerProcess.
SigGet(p) == getInitContainerProcess(p, "SignalContainer", "sig_got")

\* SignalContainer: the state is read under l.mu, which is then released.
SigCheck(p) ==
  /\ pc[p] = "sig_got" /\ sandboxUp
  /\ IF sentryCont[focus].state # "running"
     THEN /\ last' = Result(p, "SignalContainer", "err", "not-running")
          /\ pc' = [pc EXCEPT ![p] = "idle"]
     ELSE /\ pc' = [pc EXCEPT ![p] = "sig_checked"]
          /\ last' = last
  /\ UNCHANGED <<mem, disk, lockHolder, eff, sentryVars, hostVars, faults, created,
                 focus, call>>

\* SignalContainer: the signal is handed to the kernel.  What the kernel
\* answers for a thread group that has exited is not decided here.
SigSend(p) ==
  /\ pc[p] = "sig_checked" /\ sandboxUp
  /\ \E r \in IF sentryCont[focus].tg = "live" THEN {"ok"} ELSE {"ok", "err"} :
       last' = Result(p, "SignalContainer", r, "sent")
  /\ pc' = [pc EXCEPT ![p] = "idle"]
  /\ UNCHANGED <<mem, disk, lockHolder, eff, sentryVars, hostVars, faults, created,
                 focus, call>>

\* A sentry that has started no container, serving the calls for one id.
SentryInit ==
  /\ mem = [p \in Procs |-> NoCont]
  /\ disk = [i \in Ids |-> NoRec]
  /\ lockHolder = [i \in Ids |-> NoProc]
  /\ pc = [p \in Procs |-> "idle"]
  /\ last = NoResult
  /\ eff = NoEffect
  /\ sandboxUp = TRUE
  /\ sentryCont = [i \in Ids |-> NoEntry]
  /\ kernelPaused = FALSE
  /\ sigPending = [i \in Ids |-> FALSE]
  /\ oomScore = OriginalOOMScoreAdj
  /\ gofer = [g \in Pids |-> "free"]
  /\ parentCg = FALSE
  /\ compatCg = [i \in Ids |-> FALSE]
  /\ filestore = [i \in Sources |-> NoFile]
  /\ dir = [i \in Ids |-> FALSE]
  /\ bundle = [i \in Ids |-> NoBundle]
  /\ faults = 0
  /\ created = [i \in Ids |-> 0]
  /\ focus \in Ids
  /\ call = NoCall

SentryNext ==
  \/ \E p \in Procs : StartInsert(p)
  \/ \E p \in Procs : StartProcess(p)
  \/ \E p \in Procs : StartUpdate(p)
  \/ InitExits
  \/ \E p \in Procs : WaitGet(p)
  \/ \E p \in Procs : WaitExited(p)
  \/ \E p \in Procs : IsContainerRunning(p)
  \/ \E p \in Procs : SigGet(p)
  \/ \E p \in Procs : SigCheck(p)
  \/ \E p \in Procs : SigSend(p)

SpecSentry == SentryInit /\ [][SentryNext]_vars

(***************************************************************************)
(* StartContainerArgs and its text.  A slice is the name of its backing    *)
(* array in a heap: "caller" is the array of the caller's SecretEnvv and   *)
(* "made" the one String makes.  Two calls are made side by side, with     *)
(* arguments that differ in the contents of the secrets at most.           *)
(***************************************************************************)

\* The longest SecretEnvv tried.
MaxSecrets == 2

SecretValues == {"K=x", "K=y", "K=z"}
EnvvValues == {<<>>, <<"A=1">>}

\* The secret lists up to MaxSecrets entries.
SecretLists == UNION {[1..n -> SecretValues] : n \in 0..MaxSecrets}

\* The heap and the argument value of a call with the given lists.
HeapOf(secret) == [caller |-> secret, made |-> <<>>]
ArgsOf(envv) == [Envv |-> envv, SecretEnvv |-> "caller"]

\* json.Marshal of the arguments: each field under its name (the fields
\* that are the same in every call are left out).
Marshal(heap, sca) ==
  <<"envv">> \o sca.Envv \o <<"secret_envv">> \o heap[sca.SecretEnvv]

\* n entries "(hidden)".
Hidden(n) == [i \in 1..n |-> "(hidden)"]

\* String that writes "(hidden)" into the slice it was given.
String_inPlace(heap, sca) ==
  LET h == [heap EXCEPT ![sca.SecretEnvv] = Hidden(Len(@))]
  IN [heap |-> h, text |-> Marshal(h, sca)]

\* StartContainerArgs.String: the receiver is a copy of the arguments; its
\* SecretEnvv is replaced by a new slice of "(hidden)" and it is marshalled.
String(heap, sca) ==
  LET h == [heap EXCEPT !.made = Hidden(Len(heap[sca.SecretEnvv]))]
      copy == [sca EXCEPT !.SecretEnvv = "made"]
  IN [heap |-> h, text |-> Marshal(h, copy)]

\* StartContainer: what it logs and the environment the process is created
\* with, Envv before SecretEnvv.
StartContainer(heap, sca) ==
  LET str == String(heap, sca)
  IN [log |-> str.text,
      Envv |-> sca.Envv \o str.heap[sca.SecretEnvv]]

\* The two calls are made.
LogAndStart ==
  /\ call.fn = "-"
  /\ call' = [call EXCEPT !.fn = "StartContainer",
                          !.ret = [i \in {1, 2} |->
                                     StartContainer(HeapOf(call.arg[i].secret),
                                                    ArgsOf(call.arg[i].Envv))]]
  /\ UNCHANGED <<mem, disk, lockHolder, pc, last, eff, sentryVars, hostVars, faults,
                 created, focus>>

\* Two argument values that differ in the contents of their secrets at most.
ArgsInit ==
  /\ mem = [p \in Procs |-> NoCont]
  /\ disk = [i \in Ids |-> NoRec]
  /\ lockHolder = [i \in Ids |-> NoProc]
  /\ pc = [p \in Procs |-> "idle"]
  /\ last = NoResult
  /\ eff = NoEffect
  /\ sandboxUp = TRUE
  /\ sentryCont = [i \in Ids |-> NoEntry]
  /\ kernelPaused = FALSE
  /\ sigPending = [i \in Ids |-> FALSE]
  /\ oomScore = OriginalOOMScoreAdj
  /\ gofer = [g \in Pids |-> "free"]
  /\ parentCg = FALSE
  /\ compatCg = [i \in Ids |-> FALSE]
  /\ filestore = [i \in Sources |-> NoFile]
  /\ dir = [i \in Ids |-> FALSE]
  /\ bundle = [i \in Ids |-> NoBundle]
  /\ faults = 0
  /\ created = [i \in Ids |-> 0]
  /\ focus = SandboxID
  /\ \E envv \in EnvvValues, s1 \in SecretLists, s2 \in SecretLists :
       /\ Len(s1) = Len(s2)
       /\ call = [fn |-> "-", ret |-> "-",
                  arg |-> [i \in {1, 2} |->
                             [Envv |-> envv, secret |-> IF i = 1 THEN s1 ELSE s2]]]

ArgsNext == LogAndStart

SpecArgs == ArgsInit /\ [][ArgsNext]_vars

(***************************************************************************)
(* Pause and resume in a sandbox of two containers: the root container,    *)
(* held by p1, and a sub-container, held by p2, both started; each is      *)
(* paused and resumed through its own Container.                           *)
(***************************************************************************)
PauseInit ==
  /\ bundle = [i \in Ids |-> NoBundle]
  /\ \E wr \in {CreatedRoot("p1", "none")} :
     \E ws \in {CreatedSub("p2", wr, "none")} :
     \E w1 \in {StartBodyOf([ws EXCEPT !.c = wr.c], "none", 2)} :
     \E w2 \in {StartBodyOf([w1 EXCEPT !.c = ws.c], "none", 2)} :
     /\ mem = [p \in Procs |-> [(IF p = "p1" THEN w1.c ELSE w2.c)
                                  EXCEPT !.parentCgroup = FALSE]]
     /\ disk = w2.disk
     /\ lockHolder = [i \in Ids |-> NoProc]
     /\ pc = [p \in Procs |-> "idle"]
     /\ last = Result("p2", "Start", "ok", "")
     /\ eff = Effect(stUnlockOrDie(w2))
     /\ sandboxUp = w2.sandboxUp
     /\ sentryCont = w2.sentryCont
     /\ kernelPaused = w2.kernelPaused
     /\ sigPending = w2.sigPending
     /\ oomScore = w2.oomScore
     /\ gofer = w2.gofer
     /\ parentCg = w2.parentCg
     /\ compatCg = w2.compatCg
     /\ filestore = w2.filestore
     /\ dir = [i \in Ids |-> w2.disk[i] # NoRec]
     /\ faults = 0
     /\ created = [i \in Ids |-> 0]
     /\ focus \in Ids
     /\ call = NoCall

PauseOps == {"pause", "resume"}

PauseNext ==
  \/ \E p \in Procs, op \in PauseOps : Lock(p, op)
  \/ \E p \in Procs : PauseBody(p)
  \/ \E p \in Procs : ResumeBody(p)

SpecPause == PauseInit /\ [][PauseNext]_vars

(***************************************************************************)
(* The plan of the gofer mounts (createGoferConf, initGoferConfs), for one *)
(* rootfs or one gofer mount at a time and with every overlay medium.      *)
(***************************************************************************)

\* config.OverlayMedium: none, memory, self, or a host directory (anon).
OverlayMedia == {"none", "memory", "self", "anon"}

\* What os.Stat finds at the mount source.
SrcKinds == {"dir", "file", "missing"}

\* The conf of a failed createGoferConf.
NoConf == [lower |-> "-", upper |-> "-"]

\* createGoferConf: the lower layer by the mount type, the upper layer by
\* the medium; the self medium needs a directory and falls back to memory.
createGoferConf(medium, mountType, srcKind) ==
  IF mountType \notin {"bind", "tmpfs", "erofs"}
  THEN [err |-> "unsupported mount type", conf |-> NoConf]
  ELSE CASE medium = "none" ->
              [err |-> "", conf |-> [lower |-> lowerOf(mountType), upper |-> "none"]]
         [] medium = "memory" ->
              [err |-> "", conf |-> [lower |-> lowerOf(mountType), upper |-> "memory"]]
         [] medium = "self" ->
              IF srcKind = "missing" THEN [err |-> "stat", conf |-> NoConf]
              ELSE IF srcKind # "dir"
              THEN [err |-> "", conf |-> [lower |-> lowerOf(mountType), upper |-> "memory"]]
              ELSE [err |-> "", conf |-> [lower |-> lowerOf(mountType), upper |-> "self"]]
         [] medium = "anon" ->
              [err |-> "", conf |-> [lower |-> lowerOf(mountType), upper |-> "anon"]]
         [] OTHER -> [err |-> "unexpected overlay medium", conf |-> NoConf]

\* No rootfs hint, no mount hint.
NoHint == [present |-> FALSE, Overlay |-> "none", Type |-> "bind", local |-> FALSE]

\* boot.RootfsHint: its overlay medium and the type of its mount.
RootfsHints ==
  {NoHint} \cup
  [present : {TRUE}, Overlay : OverlayMedia, Type : {"bind", "erofs"}, local : {FALSE}]

\* boot.MountHint of a mount source: the type of its mount and whether it
\* is sandbox-local.
MountHints ==
  {NoHint} \cup
  [present : {TRUE}, Overlay : {"none"}, Type : {"bind", "tmpfs"}, local : BOOLEAN]

\* The medium of the rootfs with the read-only root looked at before the
\* rootfs hint.
rootMedium_hintLast(medium, hint, readonly) ==
  IF hint.present THEN hint.Overlay
  ELSE IF readonly THEN "none" ELSE medium

\* initGoferConfs, rootfs: the medium of the configuration, replaced by the
\* one of the rootfs hint, replaced by none for a read-only root.
rootMedium(medium, hint, readonly) ==
  IF readonly THEN "none"
  ELSE IF hint.present THEN hint.Overlay ELSE medium

\* initGoferConfs, rootfs: bind unless the rootfs hint has a mount that is
\* not a gofer mount.
rootMountType(hint) ==
  IF hint.present /\ hint.Type # "bind" THEN hint.Type ELSE "bind"

\* initGoferConfs, the rootfs entry.
initRootConf(medium, hint, readonly, srcKind) ==
  createGoferConf(rootMedium(medium, hint, readonly), rootMountType(hint), srcKind)

\* The medium of a gofer mount with the read-only option looked at after
\* the hint.
mountMedium_readonlyLast(medium, hint, readonly) ==
  IF readonly THEN "none"
  ELSE IF hint.present /\ hint.local THEN "self" ELSE medium

\* initGoferConfs, gofer mount: the submount medium of the configuration,
\* none for a read-only mount, self with a sandbox-local hint.
mountMedium(medium, hint, readonly) ==
  IF hint.present /\ hint.local THEN "self"
  ELSE IF readonly THEN "none" ELSE medium

\* initGoferConfs, gofer mount: bind unless a sandbox-local hint has a mount
\* that is not a gofer mount.
mountMountType(hint) ==
  IF hint.present /\ hint.local /\ hint.Type # "bind" THEN hint.Type ELSE "bind"

\* initGoferConfs, the entry of one gofer mount.
initMountConf(medium, hint, readonly, srcKind) ==
  createGoferConf(mountMedium(medium, hint, readonly), mountMountType(hint), srcKind)

\* One entry of the plan is computed: the rootfs entry ...
PlanRoot(medium, hint, readonly, srcKind) ==
  /\ call = NoCall
  /\ call' = [fn |-> "initRootConf",
              arg |-> [medium |-> medium, hint |-> hint, readonly |-> readonly,
                       srcKind |-> srcKind],
              ret |-> initRootConf(medium, hint, readonly, srcKind)]
  /\ UNCHANGED <<mem, disk, lockHolder, pc, last, eff, sentryVars, hostVars, faults,
                 created, focus>>

\* ... or the entry of a gofer mount.
PlanMount(medium, hint, readonly, srcKind) ==
  /\ call = NoCall
  /\ call' = [fn |-> "initMountConf",
              arg |-> [medium |-> medium, hint |-> hint, readonly |-> readonly,
                       srcKind |-> srcKind],
              ret |-> initMountConf(medium, hint, readonly, srcKind)]
  /\ UNCHANGED <<mem, disk, lockHolder, pc, last, eff, sentryVars, hostVars, faults,
                 created, focus>>

PlanNext ==
  \/ \E medium \in OverlayMedia, hint \in RootfsHints, readonly \in BOOLEAN,
        srcKind \in SrcKinds : PlanRoot(medium, hint, readonly, srcKind)
  \/ \E medium \in OverlayMedia, hint \in MountHints, readonly \in BOOLEAN,
        srcKind \in SrcKinds : PlanMount(medium, hint, readonly, srcKind)

SpecPlan == Init /\ [][PlanNext]_vars

(***************************************************************************)
(* Stop: a sandbox whose root container may have a cgroup of its own and   *)
(* its sub-container; the processes that created them, or processes that   *)
(* loaded them later, start and destroy them.                              *)
(***************************************************************************)
StopInit ==
  /\ bundle = [i \in Ids |-> NoBundle]
  /\ \E annot \in BOOLEAN, target \in Ids :
     \E wr \in {NewRootBody(EmptyWorld(NewContainer("p1", SandboxID, "none")),
                            "none", annot, 1)} :
     \E ws \in {CreatedSub("p2", wr, "none")} :
     /\ mem = [p \in Procs |-> [(IF p = "p1" THEN wr.c ELSE ws.c)
                                  EXCEPT !.parentCgroup = FALSE]]
     /\ disk = ws.disk
     /\ lockHolder = [i \in Ids |-> NoProc]
     /\ pc = [p \in Procs |-> "idle"]
     /\ last = Result("p2", "New", "ok", "")
     /\ eff = Effect(stUnlockOrDie(ws))
     /\ sandboxUp = ws.sandboxUp
     /\ sentryCont = ws.sentryCont
     /\ kernelPaused = ws.kernelPaused
     /\ sigPending = ws.sigPending
     /\ oomScore = ws.oomScore
     /\ gofer = ws.gofer
     /\ parentCg = ws.parentCg
     /\ compatCg = ws.compatCg
     /\ filestore = ws.filestore
     /\ dir = [i \in Ids |-> ws.disk[i] # NoRec]
     /\ faults = 0
     /\ created = [i \in Ids |-> 0]
     /\ focus = target
     /\ call = NoCall

StopOps == {"start", "destroy"}

StopNext ==
  \/ \E p \in Procs, id \in Ids : Load(p, id)
  \/ \E p \in Procs : Exit(p)
  \/ \E p \in Procs, op \in StopOps : Lock(p, op)
  \/ \E p \in Procs : StartBody(p)
  \/ \E p \in Procs : DestroyBody(p)

SpecStop == StopInit /\ [][StopNext]_vars

(***************************************************************************)
(* Hooks: containers are created, started and destroyed; any hook may      *)
(* fail.  The containers' specs have hooks of every kind.                  *)
(***************************************************************************)
HookOps == {"start", "destroy"}

HooksNext ==
  \/ \E p \in Procs, id \in Ids, spec \in Uppers : NewLockForNew(p, id, spec)
  \/ \E p \in Procs : NewBody(p)
  \/ \E p \in Procs : CleanupLock(p)
  \/ \E p \in Procs : CleanupBody(p)
  \/ \E p \in Procs, op \in HookOps : Lock(p, op)
  \/ \E p \in Procs : StartBody(p)
  \/ \E p \in Procs : DestroyBody(p)

SpecHooks == Init /\ [][HooksNext]_vars

(***************************************************************************)
(* Properties.                                                             *)
(***************************************************************************)

\* The status transitions of section 4.7.
SpecTransition(from, to) ==
  \/ from = "Creating" /\ to = "Created"
  \/ from = "Created" /\ to = "Running"
  \/ from = "Running" /\ to = "Paused"
  \/ from = "Paused" /\ to = "Running"
  \/ to = "Stopped"

\* Process p returns from the locked operation it is in (one of ops).
Returns(p, ops) == pc[p] \in ops /\ pc'[p] = "idle"

\* C1: every change of a Container's status is one of Creating->Created,
\* Created->Running, Running->Paused, Paused->Running, any->Stopped, and no
\* operation makes changeStatus panic with "invalid state transition".
C1_OnlySpecTransitions ==
  [][/\ \A p \in Procs :
          (mem[p] # NoCont /\ mem'[p] # NoCont /\ mem'[p].ID = mem[p].ID
             /\ mem'[p].Status # mem[p].Status)
            => SpecTransition(mem[p].Status, mem'[p].Status)
     /\ last'.r # "panic"]_vars

\* C2: among create attempts for one id (nobody deleting the container), at
\* most one returns a container in status Created.
C2_AtMostOneCreated == \A id \in Ids : created[id] <= 1

\* C3: the Destroy run as cleanup of a failed create attempt never removes or
\* alters a record written by another attempt.
C3_CleanupTouchesOwnRecordOnly ==
  [][\A p \in Procs :
       (Returns(p, {"cleanup_locked"}) /\ disk'[mem[p].ID] # disk[mem[p].ID])
         => disk[mem[p].ID].Creator = p]_vars

\* What a Destroy leaves of a Container: stopped, no sandbox, no gofer, no
\* record.
TornDown(c) ==
  c.Status = "Stopped" /\ ~c.Sandbox /\ c.GoferPid = 0 /\ disk[c.ID] = NoRec

\* C4: a Destroy of a Container that a Destroy has torn down already, and in
\* which no step fails for outside reasons, returns no error.
C4_SecondDestroySucceeds ==
  [][\A p \in Procs :
       (Returns(p, {"destroy"}) /\ TornDown(mem[p]) /\ faults' = faults)
         => last'.r = "ok"]_vars

\* C5: when New has failed after taking the lock and its cleanup ran without
\* a failure of its own, everything the attempt acquired is released: record
\* removed, gofer reaped, sub-container destroyed, parent and compat cgroups
\* uninstalled, lock released.
C5_FailedNewReleasesEverything ==
  [][\A p \in Procs :
       (Returns(p, {"cleanup_locked"}) /\ faults' = faults)
         => LET c == mem[p] IN
              /\ disk'[c.ID] = NoRec
              /\ lockHolder'[c.ID] = NoProc
              /\ (c.GoferPid # 0 => gofer'[c.GoferPid] = "gone")
              /\ (c.Sandbox => sentryCont'[c.ID] = "none")
              /\ (c.Compat => ~compatCg'[c.ID])
              /\ (c.parentCgroup => ~parentCg')]_vars

\* C6: a record in the state file never has status Creating.
C6_NoCreatingOnDisk == \A id \in Ids : disk[id].Status # "Creating"

\* C6 witness: a create attempt failed and was cleaned up while a sealed
\* record of a created container is on disk.
C6_Witness ==
  /\ last.op = "New" /\ last.r = "err" /\ last.why = "failed"
  /\ \E id \in Ids : disk[id].Status = "Created"

\* Ways a Start/Restore can fail before it changes the status.
StartEarlyErrors ==
  {"state", "gofer", "filestore", "filestore-exists", "rpc", "rpc-rejected"}

\* C7: Start and Restore are admitted only for a Container whose status is
\* Created; on success Running is in the record when the lock is released; a
\* rejected call, or one whose gofer spawn or sentry RPC fails, leaves the
\* status and the record as they were.
C7_StartContract ==
  [][\A p \in Procs :
       Returns(p, {"start", "restore"})
         => LET c == mem[p] IN
              /\ c.Status # "Created"
                   => /\ last'.r = "err" /\ last'.why = "state"
                      /\ sentryCont' = sentryCont /\ gofer' = gofer
              /\ last'.r = "ok"
                   => /\ c.Status = "Created" /\ mem'[p].Status = "Running"
                      /\ disk'[c.ID] = Persisted(mem'[p])
                      /\ lockHolder'[c.ID] = NoProc
              /\ (last'.r = "err" /\ last'.why \in StartEarlyErrors)
                   => /\ mem'[p].Status = c.Status
                      /\ disk' = disk]_vars

\* C7 witness: a Start has succeeded and Running is on disk.
C7_Witness ==
  /\ last.op \in {"Start", "Restore"} /\ last.r = "ok"
  /\ mem[last.p].Status = "Running" /\ disk[mem[last.p].ID].Status = "Running"

\* C8: a Start issued when the record as last written is no longer Created is
\* rejected by the status check (the stale copy is not used): no second start
\* RPC is issued.
C8_StartSeesLastWrittenStatus ==
  [][\A p \in Procs :
       (Returns(p, {"start", "restore"}) /\ disk[mem[p].ID] # NoRec
          /\ disk[mem[p].ID].Status # "Created")
         => (last'.r = "err" /\ last'.why = "state")]_vars

\* C9: Pause is admitted exactly in Created and Running, Resume exactly in
\* Paused; an admitted call whose RPC succeeds ends with the new status saved;
\* a rejected call or one whose RPC fails changes neither status nor record.
C9_PauseResumeContract ==
  [][\A p \in Procs :
       Returns(p, {"pause", "resume"})
         => LET c == mem[p]
                admitted == IF pc[p] = "pause" THEN c.Status \in {"Created", "Running"}
                            ELSE c.Status = "Paused"
                target == IF pc[p] = "pause" THEN "Paused" ELSE "Running"
            IN /\ ~admitted => (last'.r = "err" /\ last'.why = "state")
               /\ (admitted /\ last'.why \notin {"rpc", "rpc-rejected", "save"})
                    => /\ last'.r = "ok"
                       /\ mem'[p].Status = target
                       /\ disk'[c.ID].Status = target
               /\ (last'.r = "err" /\ last'.why \in {"state", "rpc", "rpc-rejected"})
                    => (mem'[p] = c /\ disk' = disk)]_vars

\* C10: once the container's record has been removed by a Destroy, every
\* Start, Restore, Pause, Resume and Wait on it, also on a copy loaded before,
\* returns an error, does not panic and does not bring the record back.
C10_DestroyedStaysDestroyed ==
  [][\A p \in Procs :
       /\ (Returns(p, {"start", "restore", "pause", "resume"})
             /\ disk[mem[p].ID] = NoRec)
            => (last'.r = "err" /\ disk'[mem[p].ID] = NoRec)
       /\ (pc[p] = "idle" /\ mem[p] # NoCont /\ disk[mem[p].ID] = NoRec
             /\ last' # last /\ last'.p = p /\ last'.op = "Wait")
            => last'.r = "err"]_vars

\* C11: no failing step of Destroy halts the cleanup: when a step of a
\* Destroy fails, the error is in the aggregate returned and the steps that
\* did not fail were still made; in particular the gofer is killed and the
\* parent cgroup of a root container is uninstalled.
C11_DestroyNeverHalts ==
  [][\A p \in Procs :
       Returns(p, {"destroy"})
         => LET c == mem[p] IN
              /\ faults' # faults => last'.r = "err"
              /\ c.GoferPid # 0 => gofer'[c.GoferPid] # "alive"
              /\ (c.Sandbox /\ isRoot(c.ID)) => ~parentCg']_vars

\* C12: after a Destroy that returns no error the record of the container is
\* gone, the Container's GoferPid is 0 and a gofer that was a child of the
\* destroying process is reaped (neither alive nor a zombie).
C12_SuccessfulDestroyLeavesNothing ==
  [][\A p \in Procs :
       (Returns(p, {"destroy"}) /\ last'.r = "ok")
         => LET c == mem[p] IN
              /\ disk'[c.ID] = NoRec
              /\ mem'[p].GoferPid = 0
              /\ (c.GoferPid # 0 /\ c.goferIsChild) => gofer'[c.GoferPid] = "gone"]_vars

\* C12 witness: the process that spawned the gofer has destroyed the
\* container without error and the gofer is reaped.
C12_Witness ==
  /\ last.op = "Destroy" /\ last.r = "ok"
  /\ mem[last.p].goferIsChild /\ mem[last.p].GoferPid = 0
  /\ disk[mem[last.p].ID] = NoRec
  /\ \E g \in Pids : gofer[g] = "gone"

\* C13: when an operation that returns a result (Start, Restore, Pause,
\* Resume, Destroy, Wait) changes Status, GoferPid, Sandbox or GoferMountConfs
\* of a Container, the calling process holds the advisory lock of that
\* container.
C13_UpdatesUnderLock ==
  [][\A p \in Procs :
       (/\ mem[p] # NoCont /\ mem'[p] # NoCont /\ mem'[p].ID = mem[p].ID
        /\ last' # last /\ last'.p = p
        /\ \/ mem'[p].Status # mem[p].Status
           \/ mem'[p].GoferPid # mem[p].GoferPid
           \/ mem'[p].Sandbox # mem[p].Sandbox
           \/ mem'[p].Confs # mem[p].Confs)
         => lockHolder[mem[p].ID] = p]_vars

\* C14: when Start, Restore, Pause, Resume or Wait has changed the status of
\* the Container and returned without a failure, the record in the state file
\* carries the new status (a later load observes it).
C14_StatusChangeIsSaved ==
  [][\A p \in Procs :
       (/\ mem[p] # NoCont /\ mem'[p] # NoCont /\ mem'[p].ID = mem[p].ID
        /\ mem'[p].Status # mem[p].Status
        /\ faults' = faults
        /\ \/ Returns(p, {"start", "restore", "pause", "resume"})
           \/ last' # last /\ last'.p = p /\ last'.op = "Wait")
         => disk'[mem[p].ID].Status = mem'[p].Status]_vars

Returned(p, ops) == last' # last /\ last'.p = p /\ last'.op \in ops

\* C16: Execute on a Container whose status is not Created or Running, and
\* Event on one whose status is not Created, Running or Paused, returns an
\* error without a request to the sandbox and without changing anything.
C16_ExecuteEventAdmission ==
  [][\A p \in Procs :
       Returned(p, {"Execute", "Event"})
         => LET admitted == IF last'.op = "Execute" THEN {"Created", "Running"}
                            ELSE {"Created", "Running", "Paused"}
            IN mem[p].Status \notin admitted
                 => /\ last'.r = "err" /\ last'.why = "state"
                    /\ ~eff'.rpc
                    /\ mem' = mem /\ disk' = disk
                    /\ sentryVars' = sentryVars]_vars

\* C16 witness: an Execute on a paused container was rejected by the status
\* check and nothing was sent.
C16_Witness ==
  /\ last.op = "Execute" /\ last.r = "err" /\ last.why = "state"
  /\ mem[last.p].Status = "Paused"
  /\ ~eff.rpc

\* C17: SignalContainer (with or without all) and SignalProcess pass the
\* status check exactly when the status is Running or Stopped; a rejected
\* call sends no request to the sandbox.
C17_SignalAdmission ==
  [][\A p \in Procs :
       Returned(p, {"Signal", "SignalAll", "SignalProcess"})
         => /\ (mem[p].Status \in {"Running", "Stopped"}) <=> (last'.why # "state")
            /\ last'.why = "state" => (last'.r = "err" /\ ~eff'.rpc)]_vars

\* C18: the sandbox is paused through its root container and the started
\* sub-container's record says Running: a signal to the sub-container without
\* all fails; with all it succeeds, leaves the kernel paused and the signal
\* waits for the resume (the container is still running).
C18_SignalWhilePaused ==
  [][\A p \in Procs :
       (/\ Returned(p, {"Signal", "SignalAll"})
        /\ ~isRoot(mem[p].ID)
        /\ kernelPaused /\ disk[SandboxID].Status = "Paused"
        /\ mem[p].Status = "Running" /\ disk[mem[p].ID].Status = "Running"
        /\ sentryCont[mem[p].ID] = "running")
         => IF last'.op = "Signal"
            THEN last'.r = "err"
            ELSE /\ last'.r = "ok"
                 /\ kernelPaused'
                 /\ sentryCont'[mem[p].ID] = "running"
                 /\ sigPending'[mem[p].ID]]_vars

RemainingScores ==
  {disk'[i].OOMScoreAdj :
     i \in {j \in Ids : /\ disk'[j] # NoRec
                         /\ disk'[j].Type # ContainerTypeSandbox
                         /\ disk'[j].OOMScoreAdj # NoScore}}

ExecutedHooks == {"prestart", "createRuntime", "poststart", "poststop"}

\* C21: a failing prestart or createRuntime hook makes New return an error
\* after a Destroy of the container (the record New had saved is its own),
\* which, when nothing fails in it, leaves no record, no container in the
\* sentry and, for the root, no sandbox; a
\* failing poststart hook leaves Start successful with Running saved; a
\* failing poststop hook does not change what Destroy returns; and no
\* operation executes createContainer or startContainer hooks.
C21_HookFailurePolicy ==
  [][\A p \in Procs :
       /\ (pc[p] = "new_locked" /\ pc'[p] # "new_locked"
             /\ eff'.err \in {"prestart", "createRuntime"})
            => pc'[p] = "cleanup" /\ last' = last
       /\ (pc[p] = "cleanup_locked" /\ pc'[p] = "idle"
             /\ disk[mem[p].ID] # NoRec /\ disk[mem[p].ID].Creator = p
             /\ last'.why = "failed")
            => /\ last' = Result(p, "New", "err", "failed")
               /\ mem'[p] = NoCont
               /\ disk'[mem[p].ID] = NoRec
               /\ sentryCont'[mem[p].ID] = "none"
               /\ isRoot(mem[p].ID) => ~sandboxUp'
       /\ (Returns(p, {"start", "restore"})
             /\ (eff'.warn \/ eff'.err = "poststart"))
            => /\ last'.r = "ok"
               /\ mem'[p].Status = "Running"
               /\ disk'[mem[p].ID] # NoRec
               /\ disk'[mem[p].ID].Status = "Running"
       /\ (Returns(p, {"destroy"}) /\ eff'.warn)
            => (last'.r = "err") = DestroyBodyOf(World(p), "none").errs
       /\ (eff' # eff)
            => \A i \in 1..Len(eff'.log) :
                 eff'.log[i] \in ExecutedHooks \cup {"save", "pidfile"}]_vars

\* A Start whose poststart hook failed has returned no error and the saved
\* status is Running.
C21_Witness ==
  /\ last = Result(last.p, "Start", "ok", "")
  /\ eff.warn /\ eff.log = <<"poststart", "save">>
  /\ mem[last.p] # NoCont /\ mem[last.p].Status = "Running"
  /\ disk[mem[last.p].ID] # NoRec /\ disk[mem[last.p].ID].Status = "Running"

\* The steps of a successful create, in order.
CreateSteps == <<"save", "prestart", "createRuntime", "pidfile">>

\* C22: a successful New has saved the record with status Created, then run
\* the prestart hooks, then the createRuntime hooks, then written the pid
\* file; a New that fails has made a prefix of these steps that does not
\* hold the pid-file write, and the step that failed was not followed by any.
C22_CreateOrder ==
  [][\A p \in Procs :
       (pc[p] = "new_locked" /\ pc'[p] # "new_locked")
         => IF pc'[p] = "idle"
            THEN /\ eff'.log = CreateSteps
                 /\ disk'[mem[p].ID] # NoRec
                 /\ disk'[mem[p].ID].Status = "Created"
            ELSE /\ \E n \in 0..3 : eff'.log = SubSeq(CreateSteps, 1, n)
                 /\ eff'.err = "save" => eff'.log = <<>>
                 /\ eff'.err = "prestart" => eff'.log = <<"save", "prestart">>
                 /\ \A i \in 1..Len(eff'.log) : eff'.log[i] # "pidfile"]_vars

\* A New has succeeded after all four steps.
C22_Witness ==
  /\ last = Result(last.p, "New", "ok", "")
  /\ eff.log = CreateSteps /\ eff.err = ""
  /\ mem[last.p] # NoCont /\ disk[mem[last.p].ID] # NoRec
  /\ disk[mem[last.p].ID].Status = "Created"

\* C23: GoferMountConfs of every Container, once planned, is the conf of the
\* rootfs followed by the confs of the gofer-serviced entries of spec.Mounts
\* in spec order, and nothing else.
C23_ConfsMatchMounts ==
  \A p \in Procs :
    (mem[p] # NoCont /\ mem[p].Confs # <<>>)
      => /\ Len(mem[p].Confs) = 1 + Len(GoferMounts(mem[p]))
         /\ mem[p].Confs = plannedConfs(mem[p])

\* The plan of c asks for goferless mode: an EROFS rootfs, no mount served
\* over Lisafs, no device gofer.
GoferlessPlan(c) ==
  /\ plannedConfs(c)[1].lower = "erofs"
  /\ \A k \in 2..Len(plannedConfs(c)) : plannedConfs(c)[k].lower # "lisafs"
  /\ ~bundle[c.ID].Device

\* The operation p ends with this step is the one that makes the gofer of
\* its container: New for the root container, Start for a sub-container.
SpawningStep(p) ==
  \/ pc[p] = "new_locked" /\ pc'[p] # "new_locked" /\ isRoot(mem[p].ID)
  \/ pc[p] = "start" /\ pc'[p] = "idle" /\ ~isRoot(mem[p].ID)

\* C24: the operation that makes the gofer of a container spawns none when
\* the plan asks for goferless mode, and then, when it succeeds, gofer_pid
\* is 0 and the only IO file made for the sentry is the rootfs image; with
\* any other plan a successful operation has spawned a gofer, recorded in
\* gofer_pid.
C24_GoferlessOnlyForErofs ==
  [][\A p \in Procs :
       SpawningStep(p)
         => LET ok == eff'.err = "" IN
            IF GoferlessPlan(mem[p])
            THEN /\ gofer' = gofer
                 /\ ok => mem'[p].GoferPid = 0 /\ eff'.io = <<"image">>
            ELSE ok => /\ mem'[p].GoferPid \in Pids
                       /\ gofer[mem'[p].GoferPid] = "free"
                       /\ gofer'[mem'[p].GoferPid] = "alive"]_vars

\* A root container was created in goferless mode: the sandbox runs, no
\* gofer exists and the IO file is the image.
C24_Witness ==
  /\ last = Result(last.p, "New", "ok", "")
  /\ mem[last.p] # NoCont /\ isRoot(mem[last.p].ID)
  /\ mem[last.p].GoferPid = 0 /\ mem[last.p].Status = "Created"
  /\ sandboxUp /\ eff.io = <<"image">>
  /\ \A g \in Pids : gofer[g] = "free"

\* C25: for every wait status, the exit status the wait command reports is
\* 128 + the signal number when the status is that of a process killed by a
\* signal (whether or not it dumped core), and the exit code of the process
\* when it is that of a process that exited; a status that is neither (a
\* stopped process, which has no exit code) is reported as -1.
C25_ExitStatusOfEveryWaitStatus ==
  call.fn = "exitStatus"
    => call.ret = IF (call.arg % 128) \in 1..126 THEN 128 + (call.arg % 128)
                  ELSE IF (call.arg % 128) = 0 THEN (call.arg \div 256) % 256
                  ELSE -1

\* The status of a process killed by SIGKILL that dumped core was reported
\* as 137.
C25_Witness ==
  call = [fn |-> "exitStatus", arg |-> 128 + 9, ret |-> 137]

\* The check the allow-list makes of a value: overlay2 only with no overlay
\* or the memory or self medium, oci-seccomp only to enable it.
AcceptedByCheck(name, value) ==
  /\ name = "overlay2" => value \in {"none", "root:memory", "all:self"}
  /\ name = "oci-seccomp" => value = "true"

\* An override asked for by an annotation has returned.
AnnotationOverride == call.fn = "Override" /\ ~call.arg.force

\* C26 as stated: an override asked for by an annotation is applied only
\* when the runtime allows flag overrides and the flag is on the allow-list
\* with a value its check accepts, and any other override returns an error.
C26_OverrideNeedsBoth ==
  AnnotationOverride
    => LET both == /\ call.arg.allow
                   /\ call.arg.name \in overrideAllowlist
                   /\ AcceptedByCheck(call.arg.name, call.arg.value)
       IN /\ call.ret.applied => both
          /\ ~both => call.ret.err # ""

\* C26: an override asked for by an annotation is applied exactly when the
\* flag exists, its value parses, and either the runtime allows flag
\* overrides or the flag is on the allow-list with a value its check
\* accepts; it returns no error exactly when it was applied and the
\* configuration is still valid.
C26_OverrideNeedsEither ==
  AnnotationOverride
    => LET permitted ==
             \/ call.arg.allow
             \/ /\ call.arg.name \in overrideAllowlist
                /\ AcceptedByCheck(call.arg.name, call.arg.value)
       IN /\ call.ret.applied
            <=> /\ call.arg.name \in FlagNames
                /\ flagValueSet(call.arg.name, call.arg.value)
                /\ permitted
          /\ call.ret.err = "" => call.ret.applied
          /\ call.arg.name \in FlagNames /\ ~permitted
               => ~call.ret.applied /\ call.ret.err # ""

\* A runtime that does not allow flag overrides applied the annotation that
\* sets overlay2 to the self medium.
C26_Witness ==
  /\ call.fn = "Override"
  /\ call.arg = [allow |-> FALSE, name |-> "overlay2", value |-> "all:self",
                 force |-> FALSE]
  /\ call.ret = [err |-> "", applied |-> TRUE]

\* C27: when New, Start or Restore returns an error, every gofer the
\* operation spawned has been killed and reaped: none is alive or a zombie.
C27_NoGoferOutlivesFailedOperation ==
  [][\A p \in Procs :
       /\ Returns(p, {"cleanup_locked"})
            => (mem[p].GoferPid # 0 => gofer'[mem[p].GoferPid] = "gone")
       /\ (Returns(p, {"start", "restore"}) /\ last'.r = "err")
            => \A g \in Pids :
                 gofer[g] = "free" => gofer'[g] \in {"free", "gone"}]_vars

\* The step is the Destroy of the container p holds, on its own or as the
\* cleanup of a failed New.
DestroyStep(p) == pc[p] \in {"destroy", "cleanup_locked"} /\ pc'[p] = "idle"

\* C28: the parent cgroup is uninstalled only by a Destroy of the root
\* container; a Destroy that uninstalls the compat cgroup of its container
\* or the parent cgroup has waited for the gofer recorded in gofer_pid, which
\* is gone, and has forgotten the pid; and one that uninstalls the parent
\* cgroup leaves no compat cgroup of its container, which it uninstalls
\* first.
C28_CgroupsUninstalledAfterGofer ==
  [][/\ (parentCg /\ ~parentCg')
          => \E p \in Procs : DestroyStep(p) /\ isRoot(mem[p].ID) /\ mem[p].Sandbox
     /\ \A p \in Procs :
          DestroyStep(p)
            => LET id == mem[p].ID
                   uninstalls == \/ compatCg[id] /\ ~compatCg'[id]
                                 \/ parentCg /\ ~parentCg'
               IN /\ ~isRoot(id) => parentCg' = parentCg
                  /\ (uninstalls /\ mem[p].GoferPid # 0)
                       => /\ gofer'[mem[p].GoferPid] \in {"gone", "free"}
                          /\ pc[p] = "destroy" => mem'[p].GoferPid = 0
                  /\ (parentCg /\ ~parentCg') => ~compatCg'[id]]_vars

\* The Destroy of a root container that has its own cgroup and a live gofer
\* has uninstalled both cgroups, and the gofer is gone.
C28_Witness ==
  /\ last = Result(last.p, "Destroy", "ok", "")
  /\ mem[last.p] # NoCont /\ isRoot(mem[last.p].ID) /\ mem[last.p].Compat
  /\ ~parentCg /\ ~compatCg[SandboxID]
  /\ gofer[1] = "gone"

\* The filestore files the step deletes.
DeletedFilestores == {x \in Sources : filestore[x] # NoFile /\ filestore'[x] = NoFile}

\* C29: a Destroy of a sub-container deletes only filestores that this
\* container created and never the filestore of a shared mount; a Destroy of
\* the root container deletes only filestores it created and those of
\* shared mounts, and a shared mount without a file is no error for it.
C29_DestroyDeletesOwnFilestores ==
  [][\A p \in Procs :
       DestroyStep(p)
         => /\ \A x \in DeletedFilestores :
                 IF isRoot(mem[p].ID)
                 THEN filestore[x] = mem[p].ID \/ ShouldShareMount(x)
                 ELSE filestore[x] = mem[p].ID /\ ~ShouldShareMount(x)
            /\ (/\ isRoot(mem[p].ID) /\ pc[p] = "destroy" /\ last'.why = ""
                /\ \A x \in Sources : filestore[x] # NoFile \/ ShouldShareMount(x)
                /\ \A k \in 1..Len(selfMounts(mem[p])) :
                     filestore[selfMounts(mem[p])[k]] # NoFile
                /\ mem[p].GoferPid = 0 \/ mem[p].goferIsChild)
                 => last'.r = "ok"]_vars

\* The Start of the sub-container p holds has spawned a gofer and gone on to
\* create the filestores, where no failure other than an existing file
\* struck.
CreatesFilestores(p) ==
  /\ pc[p] = "start" /\ pc'[p] = "idle" /\ ~isRoot(mem[p].ID)
  /\ mem'[p].GoferPid # 0 /\ gofer[mem'[p].GoferPid] = "free"
  /\ eff'.err # "filestore"

\* C30: when the self-backed filestores of a container are created, a mount
\* source that has a filestore file already makes the creation fail when the
\* mount is not shared, and is reused as it is when the mount is shared; a
\* source without a file gets one in both cases, unless the creation failed
\* before its turn.
C30_ExistingFilestore ==
  [][\A p \in Procs :
       CreatesFilestores(p)
         => LET srcs == selfMounts(mem'[p])
                has(k) == filestore[srcs[k]] # NoFile
                refused == {k \in 1..Len(srcs) : has(k) /\ ~ShouldShareMount(srcs[k])}
            IN /\ (eff'.err = "filestore-exists") <=> (refused # {})
               /\ \A x \in Sources : filestore[x] # NoFile => filestore'[x] = filestore[x]
               /\ \A k \in 1..Len(srcs) :
                    (~has(k) /\ \A b \in refused : k < b)
                      => filestore'[srcs[k]] = mem[p].ID]_vars

\* The sub-container was started on a shared mount whose filestore the root
\* container had created: the file is still the root's, and the
\* sub-container made the one of its own rootfs.
C30_Witness ==
  /\ last = Result(last.p, "Start", "ok", "")
  /\ mem[last.p] # NoCont /\ mem[last.p].ID = "s"
  /\ ShouldShareMount("vol")
  /\ "vol" \in {selfMounts(mem[last.p])[k] : k \in 1..Len(selfMounts(mem[last.p]))}
  /\ filestore["vol"] = SandboxID /\ filestore["s"] = "s"

\* The upper layer the self medium gives a source of that kind.
SelfOr(srcKind) == IF srcKind = "dir" THEN "self" ELSE "memory"

\* C31: the planned upper layer of a gofer mount is that of the self medium
\* when its source has a sandbox-local hint, read-only or not; otherwise
\* none when the mount is read-only; otherwise that of the configured
\* submount medium; where the self medium gives self for a directory and
\* memory for any other source.
C31_SubmountUpperLayer ==
  (call.fn = "initMountConf" /\ call.ret.err = "")
    => LET a == call.arg
           medium == IF a.hint.present /\ a.hint.local THEN "self"
                     ELSE IF a.readonly THEN "none"
                     ELSE a.medium
       IN call.ret.conf.upper = IF medium = "self" THEN SelfOr(a.srcKind) ELSE medium

\* A read-only mount of a directory with a sandbox-local hint was planned
\* with the self upper layer although the configuration asks for none.
C31_Witness ==
  /\ call.fn = "initMountConf"
  /\ call.arg = [medium |-> "none",
                 hint |-> [present |-> TRUE, Overlay |-> "none", Type |-> "bind",
                           local |-> TRUE],
                 readonly |-> TRUE, srcKind |-> "dir"]
  /\ call.ret = [err |-> "", conf |-> [lower |-> "lisafs", upper |-> "self"]]

\* C32: the lower layer of the rootfs entry is Erofs when a rootfs hint asks
\* for EROFS and Lisafs otherwise, and with a read-only root the entry is
\* planned without error and with no overlay, whatever the media of the
\* configuration and of the rootfs hint.
C32_RootfsEntry ==
  call.fn = "initRootConf"
    => LET a == call.arg IN
       /\ call.ret.err = ""
            => call.ret.conf.lower =
                 IF a.hint.present /\ a.hint.Type = "erofs" THEN "erofs" ELSE "lisafs"
       /\ a.readonly => call.ret.err = "" /\ call.ret.conf.upper = "none"

\* A read-only EROFS root whose hint asks for the self medium was planned
\* with no overlay.
C32_Witness ==
  /\ call.fn = "initRootConf"
  /\ call.arg = [medium |-> "memory",
                 hint |-> [present |-> TRUE, Overlay |-> "self", Type |-> "erofs",
                           local |-> FALSE],
                 readonly |-> TRUE, srcKind |-> "file"]
  /\ call.ret = [err |-> "", conf |-> [lower |-> "erofs", upper |-> "none"]]

\* C33: when a start or a destroy completes and no other operation is under
\* way, none having failed, the sentry's oom_score_adj is the lowest score
\* of the containers that remain and count; when none of them has a score, a
\* destroy has set the original score.
C33_NoStaleOOMScore ==
  [][\A p \in Procs :
       (/\ pc[p] \in {"adjust_set", "destroy"}
        /\ \A q \in Procs : pc'[q] = "idle"
        /\ faults' = 0 /\ last'.r = "ok" /\ sandboxUp')
         => IF RemainingScores # {}
            THEN /\ oomScore' \in RemainingScores
                 /\ \A x \in RemainingScores : oomScore' <= x
            ELSE pc[p] = "destroy" => oomScore' = OriginalOOMScoreAdj]_vars

\* The hook kind was executed in the step.
Executed(kind) == \E k \in 1..Len(eff'.log) : eff'.log[k] = kind

\* C34: a Destroy of a container that an earlier Destroy has already taken
\* to Stopped, running the poststop hooks, does not execute them again; and
\* a Destroy that executes them leaves the container Stopped, after the
\* removal of its state directory was attempted.
C34_PoststopAtMostOnce ==
  [][\A p \in Procs :
       (pc[p] = "destroy" /\ pc'[p] = "idle")
         => /\ mem[p].Status = "Stopped" => ~Executed("poststop")
            /\ Executed("poststop")
                 => /\ mem'[p].Status = "Stopped"
                    /\ disk'[mem[p].ID] = NoRec \/ last'.r = "err"]_vars

\* C35: a Destroy that holds the lock of its container returns; and a
\* Destroy forgets the pid of the gofer only once the gofer is gone.
C35_DestroyReturns ==
  /\ \A p \in Procs :
       (pc[p] \in {"destroy", "destroy_wait", "destroy_rest"}) ~> (pc[p] = "idle")
  /\ [][\A p \in Procs :
          (/\ mem[p] # NoCont /\ mem'[p] # NoCont
           /\ mem[p].GoferPid # 0 /\ mem'[p].GoferPid = 0)
            => gofer'[mem[p].GoferPid] \in {"gone", "free"}]_vars

\* The Destroy by the process that is not the parent of the gofer gave up
\* after the last poll and returned an error: the gofer, killed, is still a
\* zombie of its parent, and the pid is kept.
C35_Witness ==
  /\ last = Result("p2", "Destroy", "err", "")
  /\ pc["p2"] = "idle" /\ mem["p2"] # NoCont
  /\ mem["p2"].GoferPid = 1 /\ gofer[1] = "zombie"

\* C36: Lifecycle.SignalContainer hands a signal to the kernel only for a
\* container that is recorded as running and whose init process has not
\* exited, and so never returns success for a container that has not been
\* started or has exited.
C36_SignalOnlyRunning ==
  [][\A p \in Procs :
       (pc[p] = "sig_checked" /\ pc'[p] = "idle")
         => /\ sentryCont[focus].state = "running"
            /\ sentryCont[focus].tg = "live"]_vars

\* C38: updateContainerState never reaches its "invalid state transition"
\* panic.
C38_NoInvalidTransition == last.r # "panic"

\* C37: the text StartContainer logs is the same for two argument values
\* that differ only in the contents of their secrets, every secret being
\* rendered as "(hidden)"; and the process is created with the real
\* secrets after its Envv.
C37_SecretsHidden ==
  call.fn = "StartContainer"
    => /\ call.ret[1].log = call.ret[2].log
       /\ \A i \in {1, 2} :
            /\ call.ret[i].log = <<"envv">> \o call.arg[i].Envv \o <<"secret_envv">>
                                   \o Hidden(Len(call.arg[i].secret))
            /\ call.ret[i].Envv = call.arg[i].Envv \o call.arg[i].secret

\* Two calls with two secrets each, none of them the same, were logged.
C37_Witness ==
  /\ call.fn = "StartContainer"
  /\ Len(call.arg[1].secret) = MaxSecrets
  /\ \A k \in 1..MaxSecrets : call.arg[1].secret[k] # call.arg[2].secret[k]
  /\ call.ret[1].log = call.ret[2].log

\* C39: when no Pause or Resume is under way, the kernel is paused if some
\* record says Paused, and no record says Running if the kernel is paused.
C39_RecordsFollowKernelPause ==
  (\A p \in Procs : pc[p] = "idle")
    => /\ (\E i \in Ids : disk[i] # NoRec /\ disk[i].Status = "Paused") => kernelPaused
       /\ kernelPaused => \A i \in Ids : disk[i] # NoRec => disk[i].Status # "Running"

LiveStatuses == {"Created", "Running", "Paused"}

\* C40: after an operation has returned, a Container (and a record) whose
\* status is Created, Running or Paused has a Sandbox; and a Container
\* loses its Sandbox only in a Destroy, which leaves it Stopped.
C40_LiveStatusHasSandbox ==
  /\ [](/\ \A p \in Procs :
             (pc[p] = "idle" /\ mem[p] # NoCont /\ mem[p].Status \in LiveStatuses)
               => mem[p].Sandbox
        /\ \A i \in Ids :
             (disk[i] # NoRec /\ disk[i].Status \in LiveStatuses) => disk[i].Sandbox)
  /\ [][\A p \in Procs :
          (/\ mem[p] # NoCont /\ mem'[p] # NoCont
           /\ mem[p].Sandbox /\ ~mem'[p].Sandbox)
            => DestroyStep(p) /\ mem'[p].Status = "Stopped"]_vars

\* A Destroy of a running container has returned: the Container is Stopped
\* and has no Sandbox, while the other container of the sandbox is live and
\* has its Sandbox.
C40_Witness ==
  /\ last.op = "Destroy" /\ pc[last.p] = "idle"
  /\ mem[last.p] # NoCont
  /\ mem[last.p].Status = "Stopped" /\ ~mem[last.p].Sandbox
  /\ \E q \in Procs : /\ mem[q] # NoCont /\ mem[q].Status = "Running"
                      /\ mem[q].Sandbox

====
